---- MODULE Spec2Model ----
(***************************************************************************)
(* Lumina: the three edge handlers (analyze-video, search-videos,          *)
(* video-qa), the client operations of src/lib/api.ts that write to the     *)
(* database (uploadVideo, deleteVideo), the tables of the migration, and    *)
(* the timestamp functions (formatTimestamp of the handler, the two parsers *)
(* of the page).                                                           *)
(*                                                                         *)
(* Every handler invocation is a process whose steps are the points where  *)
(* the handler awaits the gateway or the database; the database executes   *)
(* each statement atomically.  Text is a sequence of one-character         *)
(* strings, so that toLowerCase, split and includes are computed.          *)
(***************************************************************************)
EXTENDS Integers, Sequences, FiniteSets, TLC

(* ------------------------------ bounds ------------------------------- *)

\* Longest array a model reply of analyze-video carries.
MaxSegs == 2

(* ------------------------------ text --------------------------------- *)

Title == <<"D","e","m","o">>

DefaultDescription == <<"V","i","d","e","o"," ","s","e","g","m","e","n","t">>

FbDesc0 == <<"V","i","d","e","o"," ","i","n","t","r","o","d","u","c","t","i","o","n"," ","a","n","d"," ","o","p","e","n","i","n","g"," ","s","e","q","u","e","n","c","e">>

FbTr0 == <<"W","e","l","c","o","m","e"," ","t","o"," ","t","h","i","s"," ","v","i","d","e","o"," ","c","o","n","t","e","n","t">>

FbDesc1 == <<"M","a","i","n"," ","c","o","n","t","e","n","t"," ","b","e","g","i","n","s"," ","w","i","t","h"," ","k","e","y"," ","i","n","f","o","r","m","a","t","i","o","n">>

FbTr1 == <<"L","e","t"," ","m","e"," ","e","x","p","l","a","i","n"," ","t","h","e"," ","m","a","i","n"," ","t","o","p","i","c">>

FbDesc2 == <<"D","e","t","a","i","l","e","d"," ","e","x","p","l","a","n","a","t","i","o","n"," ","a","n","d"," ","d","e","m","o","n","s","t","r","a","t","i","o","n">>

FbTr2 == <<"H","e","r","e"," ","y","o","u"," ","c","a","n"," ","s","e","e"," ","h","o","w"," ","t","h","i","s"," ","w","o","r","k","s">>

FbDesc3 == <<"S","u","m","m","a","r","y"," ","a","n","d"," ","c","o","n","c","l","u","s","i","o","n">>

FbOcr3 == <<"S","u","m","m","a","r","y">>

FbTr3 == <<"T","o"," ","w","r","a","p"," ","u","p",","," ","w","e"," ","c","o","v","e","r","e","d"," ","t","h","e"," ","m","a","i","n"," ","p","o","i","n","t","s">>

(* ----------------------- JavaScript values --------------------------- *)

\* A property that may be missing: has = FALSE is undefined (or JSON null).
Some(x) == [has |-> TRUE, v |-> x]

NoNum == [has |-> FALSE, v |-> 0]

NoStr == [has |-> FALSE, v |-> <<>>]

NoObj == [has |-> FALSE, v |-> {}]

\* a || b for a number: undefined, null and 0 are falsy.
OrNum(a, b) == IF a.has /\ a.v # 0 THEN a.v ELSE b

\* a || b for a string: undefined, null and "" are falsy.
OrStr(a, b) == IF a.has /\ a.v # <<>> THEN a.v ELSE b

\* a || null for a string column.
OrNull(a) == IF a.has /\ a.v # <<>> THEN a ELSE NoStr

\* a || {} for an object.
OrObj(a) == IF a.has THEN a.v ELSE {}

\* JavaScript's %: the remainder takes the sign of the dividend.
JsRem(a, b) == IF a >= 0 THEN a % b ELSE -((-a) % b)

Digit(d) == <<"0","1","2","3","4","5","6","7","8","9">>[d + 1]

RECURSIVE Digits(_)
Digits(n) == IF n < 10 THEN <<Digit(n)>> ELSE Digits(n \div 10) \o <<Digit(n % 10)>>

\* Number.prototype.toString of an integer.
NumToString(n) == IF n < 0 THEN <<"-">> \o Digits(-n) ELSE Digits(n)

\* s.padStart(2, "0")
PadStart2(s) == IF Len(s) < 2 THEN <<"0">> \o s ELSE s

\* String.prototype.trim on blanks.
RECURSIVE TrimLeft(_)
TrimLeft(s) == IF s # <<>> /\ Head(s) = " " THEN TrimLeft(Tail(s)) ELSE s

RECURSIVE TrimRight(_)
TrimRight(s) ==
  IF s # <<>> /\ s[Len(s)] = " " THEN TrimRight(SubSeq(s, 1, Len(s) - 1)) ELSE s

Trim(s) == TrimRight(TrimLeft(s))

(* --------------------------- analyze-video --------------------------- *)

\* Mutant: the minutes are not reduced modulo the hour.
formatTimestamp_MinutesNotReduced(seconds) ==
  LET hrs  == seconds \div 3600
      mins == seconds \div 60
      secs == JsRem(seconds, 60)
  IN  PadStart2(NumToString(hrs)) \o <<":">> \o PadStart2(NumToString(mins))
        \o <<":">> \o PadStart2(NumToString(secs))

formatTimestamp(seconds) ==
  LET hrs  == seconds \div 3600
      mins == JsRem(seconds, 3600) \div 60
      secs == JsRem(seconds, 60)
  IN  PadStart2(NumToString(hrs)) \o <<":">> \o PadStart2(NumToString(mins))
        \o <<":">> \o PadStart2(NumToString(secs))

\* One element of the array the model returns.  isNull is the JSON literal
\* null, on which every property read throws.
Seg(ts, desc, ocr, objs, tr) ==
  [isNull |-> FALSE, timestamp_seconds |-> ts, description |-> desc,
   ocr_text |-> ocr, detected_objects |-> objs, transcript |-> tr]

NullSeg ==
  [isNull |-> TRUE, timestamp_seconds |-> NoNum, description |-> NoStr,
   ocr_text |-> NoStr, detected_objects |-> NoObj, transcript |-> NoStr]

\* The hard-coded list of the catch branch.
FallbackSegments(title) ==
  << Seg(Some(0), Some(FbDesc0), title, Some({<<"person", 1>>}), Some(FbTr0)),
     Seg(Some(30), Some(FbDesc1), Some(<<>>), Some({<<"text_overlay", 1>>}), Some(FbTr1)),
     Seg(Some(60), Some(FbDesc2), Some(<<>>), Some({<<"person", 1>>}), Some(FbTr2)),
     Seg(Some(120), Some(FbDesc3), Some(FbOcr3), Some({<<"text_overlay", 1>>}), Some(FbTr3)) >>

\* A gateway reply body: content is aiResult.choices?.[0]?.message?.content,
\* hasArray whether /\[[\s\S]*\]/ matches it, validJson whether JSON.parse
\* accepts the match, array what it parses to.
Reply(hasContent, hasArray, validJson, array) ==
  [hasContent |-> hasContent, hasArray |-> hasArray, validJson |-> validJson,
   array |-> array]

\* Mutant: a reply without an array is not thrown on (as in search-videos).
AnalyzeParseThrows_NoMatchAccepted(reply) ==
  \/ ~reply.hasContent
  \/ reply.hasArray /\ ~reply.validJson

\* The try block: TRUE when it throws (content undefined: .match throws a
\* TypeError; no match: the explicit throw; JSON.parse throws).
AnalyzeParseThrows(reply) ==
  \/ ~reply.hasContent
  \/ ~reply.hasArray
  \/ ~reply.validJson

ParseSegments(reply, title) ==
  IF AnalyzeParseThrows(reply) THEN FallbackSegments(title) ELSE reply.array

\* Which of the parse's cases a reply falls in (recorded with the request).
ReplyKind(reply) ==
  IF ~reply.hasContent THEN "missing"
  ELSE IF ~reply.hasArray THEN "noarray"
  ELSE IF ~reply.validJson THEN "badjson"
  ELSE "array"

\* Mutant: the call is issued a second time.
CallGateway_Retried(req) == [req EXCEPT !.llmCalls = @ + 2]

\* await fetch("https://ai.gateway.lovable.dev/v1/chat/completions", ...):
\* one call of the gateway, counted with the request.
CallGateway(req) == [req EXCEPT !.llmCalls = @ + 1]

\* One awaited statement of the database client, counted with the request.
CallDatabase(req) == [req EXCEPT !.dbOps = @ + 1]

\* seg.timestamp_seconds || index * 30, with the 0-based index of map().
RecordTimestamp(seg, index) == OrNum(seg.timestamp_seconds, index * 30)

EmbeddingText(seg) ==
  Trim(OrStr(seg.description, <<>>) \o <<" ">> \o OrStr(seg.transcript, <<>>)
         \o <<" ">> \o OrStr(seg.ocr_text, <<>>))

\* One row of segmentRecords.  confidence_score (0.85 + Math.random() * 0.15)
\* is read by no code and is left out; by is the inserting request, kept to
\* tell the rows of two requests apart (the table's id column does it).
SegmentRecord(videoId, seg, index, by) ==
  [video_id |-> videoId,
   timestamp_seconds |-> RecordTimestamp(seg, index),
   timestamp_display |-> formatTimestamp(RecordTimestamp(seg, index)),
   description |-> OrStr(seg.description, DefaultDescription),
   ocr_text |-> OrNull(seg.ocr_text),
   detected_objects |-> OrObj(seg.detected_objects),
   transcript |-> OrNull(seg.transcript),
   embedding_text |-> EmbeddingText(seg),
   by |-> by]

\* segments.map(...) throws when an element is null.
MapThrows(segments) == \E i \in 1..Len(segments) : segments[i].isNull

SegmentRecords(videoId, segments, by) ==
  [i \in 1..Len(segments) |-> SegmentRecord(videoId, segments[i], i - 1, by)]

RECURSIVE MaxOf(_)
MaxOf(S) ==
  LET x == CHOOSE y \in S : TRUE
  IN  IF S = {x} THEN x
      ELSE LET m == MaxOf(S \ {x}) IN IF x > m THEN x ELSE m

\* Math.max(...segments.map(s => s.timestamp_seconds || 0)) + 30.  Of an
\* empty list Math.max is -Infinity, which JSON.stringify writes as null.
DurationSeconds(segments) ==
  IF Len(segments) = 0 THEN NoNum
  ELSE Some(MaxOf({OrNum(segments[i].timestamp_seconds, 0) : i \in 1..Len(segments)}) + 30)

(* ------------------------------ state -------------------------------- *)

VARIABLES
  apiKey,            \* Deno.env.get("LOVABLE_API_KEY") is set
  videos,            \* table videos: id -> row
  nextVideoId,       \* gen_random_uuid(): ids are fresh
  storage,           \* bucket "videos": the stored paths
  video_segments,    \* table video_segments, in insertion order
  video_qa_history,  \* table video_qa_history, in insertion order
  upload,            \* uploadVideo calls
  del,               \* deleteVideo calls
  analyze,           \* analyze-video invocations
  search,            \* search-videos invocations
  qa,                \* video-qa invocations
  client,            \* the page: a timestamp shown, and where the player seeks
  chat               \* the VideoQA panel of the page, and its requests in flight

vars == <<apiKey, videos, nextVideoId, storage, video_segments,
          video_qa_history, upload, del, analyze, search, qa, client, chat>>

\* uploadVideo calls; the video of call u gets the next fresh id.
Uploads == {1, 2}

VideoIds == {1, 2}

\* Concurrent invocations of each handler and of deleteVideo.
AnalyzeReqs == {1, 2}

SearchReqs == {1}

QaReqs == {1}

Deletes == {1}

\* headers: { ...corsHeaders, "Content-Type": "application/json" }
JsonHeaders == [cors |-> TRUE, contentType |-> "application/json"]

NoHeaders == [cors |-> FALSE, contentType |-> ""]

\* A response that was not sent yet.
NoResponse ==
  [status |-> 0, error |-> "", success |-> FALSE, segmentsCreated |-> 0,
   headers |-> NoHeaders]

\* Mutant: the error response carries no CORS headers.
ErrorResponse_WithoutCors(status, message) ==
  [status |-> status, error |-> message, success |-> FALSE, segmentsCreated |-> 0,
   headers |-> [cors |-> FALSE, contentType |-> "application/json"]]

\* new Response(JSON.stringify({ error: message }), { status, headers })
ErrorResponse(status, message) ==
  [status |-> status, error |-> message, success |-> FALSE, segmentsCreated |-> 0,
   headers |-> JsonHeaders]

(* ----------------------------- database ------------------------------ *)

\* INSERT INTO videos: status 'processing', duration_seconds NULL.
VideoRow(path) ==
  [status |-> "processing", duration_seconds |-> NoNum, storage_path |-> path]

\* video_id REFERENCES videos(id): a row for a missing video is refused.
ForeignKeyHolds(vids, records) ==
  \A i \in 1..Len(records) : records[i].video_id \in DOMAIN vids

\* Mutant: the insert replaces the rows the video already has.
InsertRows_Replacing(rows, records) ==
  LET Other(row) == \A i \in 1..Len(records) : records[i].video_id # row.video_id
  IN  SelectSeq(rows, Other) \o records

\* INSERT INTO video_segments: the rows are appended.
InsertRows(rows, records) == rows \o records

\* UPDATE videos SET status = 'ready', duration_seconds = d WHERE id = videoId
\* (no row matches a missing id, which is no error).
UpdateVideoReady(vids, videoId, d) ==
  [id \in DOMAIN vids |->
     IF id = videoId
       THEN [vids[id] EXCEPT !.status = "ready", !.duration_seconds = d]
       ELSE vids[id]]

\* Mutant: the foreign keys do not cascade.
CascadeDelete_Missing(rows, videoId) == rows

\* ON DELETE CASCADE of video_segments.video_id and video_qa_history.video_id.
CascadeDelete(rows, videoId) ==
  LET Keep(row) == row.video_id # videoId IN SelectSeq(rows, Keep)

\* Mutant: an update that fails marks the video failed.
UpdateOutcome_MarkingFailed(vids, videoId, d, ok) ==
  IF ok THEN UpdateVideoReady(vids, videoId, d)
  ELSE [id \in DOMAIN vids |->
          IF id = videoId THEN [vids[id] EXCEPT !.status = "failed"] ELSE vids[id]]

\* The table videos after the update statement of analyze-video, which
\* either is applied or fails.
UpdateOutcome(vids, videoId, d, ok) ==
  IF ok THEN UpdateVideoReady(vids, videoId, d) ELSE vids

DeleteVideoRow(vids, videoId) == [id \in DOMAIN vids \ {videoId} |-> vids[id]]

(* --------------------------- uploadVideo ----------------------------- *)

IdleUpload == [pc |-> "idle", videoId |-> 0, req |-> 0]

\* supabase.storage.from("videos").upload(storagePath, file): the path of
\* upload u (Date.now() and the file name) is u.
UploadStorage(u, ok) ==
  /\ upload[u].pc = "idle"
  /\ \A w \in Uploads : w < u => upload[w].pc # "idle"
  /\ IF ok
       THEN /\ storage' = storage \cup {u}
            /\ upload' = [upload EXCEPT ![u].pc = "stored"]
       ELSE /\ upload' = [upload EXCEPT ![u].pc = "threw"]
            /\ UNCHANGED storage
  /\ UNCHANGED <<chat, client, apiKey, videos, nextVideoId, video_segments, video_qa_history,
                 del, analyze, search, qa>>

\* supabase.from("videos").insert({..., status: "processing"}).select().single()
UploadInsert(u, ok) ==
  /\ upload[u].pc = "stored"
  /\ IF ok
       THEN /\ videos' = [id \in DOMAIN videos \cup {nextVideoId} |->
                            IF id = nextVideoId THEN VideoRow(u) ELSE videos[id]]
            /\ nextVideoId' = nextVideoId + 1
            /\ upload' = [upload EXCEPT ![u].pc = "inserted", ![u].videoId = nextVideoId]
       ELSE /\ upload' = [upload EXCEPT ![u].pc = "threw"]
            /\ UNCHANGED <<videos, nextVideoId>>
  /\ UNCHANGED <<chat, client, apiKey, storage, video_segments, video_qa_history,
                 del, analyze, search, qa>>

(* --------------------------- deleteVideo ----------------------------- *)

IdleDelete == [pc |-> "idle", id |-> 0, path |-> 0]

\* const video = await getVideo(id); if (!video) return;
DeleteGet(d, id, ok) ==
  /\ del[d].pc = "idle"
  /\ del' = [del EXCEPT ![d] =
       IF ~ok THEN [pc |-> "threw", id |-> id, path |-> 0]
       ELSE IF id \notin DOMAIN videos THEN [pc |-> "returned", id |-> id, path |-> 0]
       ELSE [pc |-> "remove", id |-> id, path |-> videos[id].storage_path]]
  /\ UNCHANGED <<chat, client, apiKey, videos, nextVideoId, storage, video_segments,
                 video_qa_history, upload, analyze, search, qa>>

\* await supabase.storage.from("videos").remove([video.storage_path]): the
\* result is not looked at.
DeleteRemove(d, ok) ==
  /\ del[d].pc = "remove"
  /\ storage' = IF ok THEN storage \ {del[d].path} ELSE storage
  /\ del' = [del EXCEPT ![d].pc = "delete"]
  /\ UNCHANGED <<chat, client, apiKey, videos, nextVideoId, video_segments,
                 video_qa_history, upload, analyze, search, qa>>

\* supabase.from("videos").delete().eq("id", id), with the cascade.
DeleteRow(d, ok) ==
  /\ del[d].pc = "delete"
  /\ IF ok
       THEN /\ videos' = DeleteVideoRow(videos, del[d].id)
            /\ video_segments' = CascadeDelete(video_segments, del[d].id)
            /\ video_qa_history' = CascadeDelete(video_qa_history, del[d].id)
            /\ del' = [del EXCEPT ![d].pc = "returned"]
       ELSE /\ del' = [del EXCEPT ![d].pc = "threw"]
            /\ UNCHANGED <<videos, video_segments, video_qa_history>>
  /\ UNCHANGED <<chat, client, apiKey, nextVideoId, storage, upload, analyze, search, qa>>

(* ---------------------- analyze-video: the handler ------------------- *)

IdleAnalyze ==
  [pc |-> "idle", videoId |-> 0, bodyOk |-> FALSE, replyKind |-> "",
   segments |-> <<>>, segmentRecords |-> <<>>, sawReady |-> FALSE,
   inserted |-> FALSE, updated |-> FALSE, gateway |-> 0, missing |-> FALSE,
   duration |-> NoNum, llmCalls |-> 0, dbOps |-> 0, resp |-> NoResponse]

\* Mutant: the key is not checked.
AnalyzeValidate_NoKeyCheck(body) ==
  IF body.malformed THEN "Unexpected end of JSON input"
  ELSE IF body.videoId = 0 \/ ~body.videoUrl THEN "Missing videoId or videoUrl"
  ELSE ""

\* await req.json(), the check of videoId and videoUrl, the key.
AnalyzeValidate(body) ==
  IF body.malformed THEN "Unexpected end of JSON input"
  ELSE IF body.videoId = 0 \/ ~body.videoUrl THEN "Missing videoId or videoUrl"
  ELSE IF ~apiKey THEN "LOVABLE_API_KEY is not configured"
  ELSE ""

\* The body can be read and names a video and a URL.
BodyOk(body) == ~body.malformed /\ body.videoId # 0 /\ body.videoUrl

\* The body can be read and lacks videoId or videoUrl.
AnalyzeMissingField(body) == ~body.malformed /\ (body.videoId = 0 \/ ~body.videoUrl)

AnalyzeBegin(r, body) ==
  /\ analyze[r].pc = "idle"
  /\ \A q \in AnalyzeReqs : q < r => analyze[q].pc # "idle"
  /\ IF AnalyzeValidate(body) # ""
       THEN analyze' = [analyze EXCEPT ![r].pc = "done",
                          ![r].bodyOk = BodyOk(body),
                          ![r].missing = AnalyzeMissingField(body),
                          ![r].resp = ErrorResponse(500, AnalyzeValidate(body))]
       ELSE analyze' = [analyze EXCEPT ![r].pc = "fetch", ![r].bodyOk = TRUE,
                          ![r].videoId = body.videoId]

\* A POST to the function by any caller.
AnalyzeStart(r, body) ==
  /\ AnalyzeBegin(r, body)
  /\ UNCHANGED <<chat, client, apiKey, videos, nextVideoId, storage, video_segments,
                 video_qa_history, upload, del, search, qa>>

\* supabase.functions.invoke("analyze-video", {videoId: video.id, ...}) of
\* uploadVideo.
UploadInvoke(u, r) ==
  /\ upload[u].pc = "inserted"
  /\ AnalyzeBegin(r, [malformed |-> FALSE, videoId |-> upload[u].videoId, videoUrl |-> TRUE])
  /\ upload' = [upload EXCEPT ![u].pc = "invoked", ![u].req = r]
  /\ UNCHANGED <<chat, client, apiKey, videos, nextVideoId, storage, video_segments,
                 video_qa_history, del, search, qa>>

\* Mutant: uploadVideo returns only when the analysis succeeded.
UploadReturn_OnlyOnSuccess(u) ==
  /\ upload[u].pc = "invoked"
  /\ analyze[upload[u].req].pc = "done"
  /\ analyze[upload[u].req].resp.success
  /\ upload' = [upload EXCEPT ![u].pc = "returned"]
  /\ UNCHANGED <<chat, client, apiKey, videos, nextVideoId, storage, video_segments,
                 video_qa_history, del, analyze, search, qa>>

\* uploadVideo returns the video once the invocation has answered.
UploadReturn(u) ==
  /\ upload[u].pc = "invoked"
  /\ analyze[upload[u].req].pc = "done"
  /\ upload' = [upload EXCEPT ![u].pc = "returned"]
  /\ UNCHANGED <<chat, client, apiKey, videos, nextVideoId, storage, video_segments,
                 video_qa_history, del, analyze, search, qa>>

\* Mutant: every status gets the generic message.
GatewayError_Generic(status) == "AI gateway error"

\* The messages thrown for a response that is not ok (the generic one is
\* followed by the status).
GatewayError(status) ==
  IF status = 429 THEN "Rate limited. Please try again later."
  ELSE IF status = 402 THEN "Payment required. Please add funds to your workspace."
  ELSE "AI gateway error"

\* The gateway's answer arrives: the error mapping, the parse, the map.
AnalyzeFetch(r, status, reply) ==
  /\ analyze[r].pc = "fetch"
  /\ LET a  == [CallGateway(analyze[r]) EXCEPT !.gateway = status]
         sg == ParseSegments(reply, Some(Title))
     IN  analyze' = [analyze EXCEPT ![r] =
           IF status # 200
             THEN [a EXCEPT !.pc = "done", !.resp = ErrorResponse(500, GatewayError(status))]
           ELSE IF MapThrows(sg)
             THEN [a EXCEPT !.pc = "done", !.replyKind = ReplyKind(reply),
                            !.resp = ErrorResponse(500, "TypeError")]
           ELSE [a EXCEPT !.pc = "insert", !.replyKind = ReplyKind(reply),
                          !.segments = sg,
                          !.segmentRecords = SegmentRecords(a.videoId, sg, r)]]
  /\ UNCHANGED <<chat, client, apiKey, videos, nextVideoId, storage, video_segments,
                 video_qa_history, upload, del, search, qa>>

\* The video exists and is ready.
IsReady(vids, videoId) == videoId \in DOMAIN vids /\ vids[videoId].status = "ready"

\* supabase.from("video_segments").insert(segmentRecords)
AnalyzeInsert(r, ok) ==
  /\ analyze[r].pc = "insert"
  /\ LET a == CallDatabase(analyze[r])
     IN  IF ok /\ ForeignKeyHolds(videos, a.segmentRecords)
           THEN /\ video_segments' = InsertRows(video_segments, a.segmentRecords)
                /\ analyze' = [analyze EXCEPT ![r] =
                                 [a EXCEPT !.pc = "update", !.inserted = TRUE,
                                           !.sawReady = IsReady(videos, a.videoId)]]
           ELSE /\ analyze' = [analyze EXCEPT ![r] =
                                 [a EXCEPT !.pc = "done",
                                           !.resp = ErrorResponse(500, "insertError")]]
                /\ UNCHANGED video_segments
  /\ UNCHANGED <<chat, client, apiKey, videos, nextVideoId, storage, video_qa_history,
                 upload, del, search, qa>>

\* Mutant: a failed update is compensated by deleting the rows just inserted.
AnalyzeUpdate_RollingBack(r, ok) ==
  /\ analyze[r].pc = "update"
  /\ LET a == CallDatabase(analyze[r])
         d == DurationSeconds(a.segments)
         Others(row) == row.by # r
     IN  /\ videos' = UpdateOutcome(videos, a.videoId, d, ok)
         /\ video_segments' =
              IF ok THEN video_segments ELSE SelectSeq(video_segments, Others)
         /\ analyze' = [analyze EXCEPT ![r] =
              IF ok
                THEN [a EXCEPT !.pc = "done", !.updated = TRUE, !.duration = d,
                               !.resp = [status |-> 200, error |-> "", success |-> TRUE,
                                         segmentsCreated |-> Len(a.segmentRecords),
                                         headers |-> JsonHeaders]]
                ELSE [a EXCEPT !.pc = "done", !.duration = d,
                               !.resp = ErrorResponse(500, "updateError")]]
  /\ UNCHANGED <<chat, client, apiKey, nextVideoId, storage, video_qa_history,
                 upload, del, search, qa>>

\* supabase.from("videos").update({status: "ready", duration_seconds}).eq("id", videoId)
AnalyzeUpdate(r, ok) ==
  /\ analyze[r].pc = "update"
  /\ LET a == CallDatabase(analyze[r])
         d == DurationSeconds(a.segments)
     IN  /\ videos' = UpdateOutcome(videos, a.videoId, d, ok)
         /\ analyze' = [analyze EXCEPT ![r] =
              IF ok
                THEN [a EXCEPT !.pc = "done", !.updated = TRUE, !.duration = d,
                               !.resp = [status |-> 200, error |-> "", success |-> TRUE,
                                         segmentsCreated |-> Len(a.segmentRecords),
                                         headers |-> JsonHeaders]]
                ELSE [a EXCEPT !.pc = "done", !.duration = d,
                               !.resp = ErrorResponse(500, "updateError")]]
  /\ UNCHANGED <<chat, client, apiKey, nextVideoId, storage, video_segments, video_qa_history,
                 upload, del, search, qa>>

(* --------------------------- search-videos --------------------------- *)

UpperCase == <<"A","B","C","D","E","F","G","H","I","J","K","L","M",
               "N","O","P","Q","R","S","T","U","V","W","X","Y","Z">>

LowerCase == <<"a","b","c","d","e","f","g","h","i","j","k","l","m",
               "n","o","p","q","r","s","t","u","v","w","x","y","z">>

LowerChar(c) ==
  IF \E i \in 1..Len(UpperCase) : UpperCase[i] = c
    THEN LowerCase[CHOOSE i \in 1..Len(UpperCase) : UpperCase[i] = c]
    ELSE c

\* String.prototype.toLowerCase
ToLowerCase(s) == [i \in 1..Len(s) |-> LowerChar(s[i])]

\* String.prototype.includes
Includes(text, w) ==
  \E i \in 1..(Len(text) - Len(w) + 1) : SubSeq(text, i, i + Len(w) - 1) = w

RECURSIVE SplitFrom(_, _, _, _)
SplitFrom(s, i, cur, out) ==
  IF i > Len(s) THEN Append(out, cur)
  ELSE IF s[i] = " "
    THEN IF i < Len(s) /\ s[i + 1] = " "
           THEN SplitFrom(s, i + 1, cur, out)
           ELSE SplitFrom(s, i + 1, <<>>, Append(out, cur))
    ELSE SplitFrom(s, i + 1, Append(cur, s[i]), out)

\* s.split(/\s+/): a leading or trailing run of blanks leaves an empty word.
SplitWhitespace(s) == SplitFrom(s, 1, <<>>, <<>>)

\* `${seg.description || ""} ${seg.transcript || ""} ${seg.ocr_text || ""}`.toLowerCase()
SegmentText(seg) ==
  ToLowerCase(seg.description \o <<" ">> \o OrStr(seg.transcript, <<>>)
                \o <<" ">> \o OrStr(seg.ocr_text, <<>>))

\* words.filter(w => text.includes(w)).length
Matches(text, words) == Cardinality({i \in 1..Len(words) : Includes(text, words[i])})

\* A relevance_score is the fraction num / den.
Score(num, den) == [num |-> num, den |-> den]

\* a > 0.3
AboveThreshold(a) == 10 * a.num > 3 * a.den

\* a > b
ScoreGreater(a, b) == a.num * b.den > b.num * a.den

Ranking(index, score, reason) ==
  [index |-> index, relevance_score |-> score, reason |-> reason]

\* Mutant: the query is not lower-cased.
KeywordRanking_CaseSensitive(seg, idx, query) ==
  LET words == SplitWhitespace(query)
  IN  Ranking(Some(idx), Score(Matches(SegmentText(seg), words), Len(words)),
              "Keyword matching fallback")

KeywordRanking(seg, idx, query) ==
  LET words == SplitWhitespace(ToLowerCase(query))
  IN  Ranking(Some(idx), Score(Matches(SegmentText(seg), words), Len(words)),
              "Keyword matching fallback")

\* Array.prototype.sort((a, b) => b.relevance_score - a.relevance_score),
\* which is stable: one element is put after the last one not below it.
RECURSIVE InsertRanked(_, _)
InsertRanked(sorted, x) ==
  IF sorted = <<>> THEN <<x>>
  ELSE IF ScoreGreater(x.relevance_score, Head(sorted).relevance_score)
    THEN <<x>> \o sorted
    ELSE <<Head(sorted)>> \o InsertRanked(Tail(sorted), x)

RECURSIVE SortRanked(_)
SortRanked(rs) ==
  IF rs = <<>> THEN <<>>
  ELSE InsertRanked(SortRanked(SubSeq(rs, 1, Len(rs) - 1)), rs[Len(rs)])

\* .slice(0, 10)
FallbackLimit == 10

Slice(rs, n) == SubSeq(rs, 1, IF Len(rs) < n THEN Len(rs) ELSE n)

KeepAboveThreshold(rs) ==
  LET Keep(r) == AboveThreshold(r.relevance_score) IN SelectSeq(rs, Keep)

\* The catch branch: the keyword scorer.
FallbackRankings(segments, query) ==
  Slice(SortRanked(KeepAboveThreshold(
          [i \in 1..Len(segments) |-> KeywordRanking(segments[i], i - 1, query)])),
        FallbackLimit)

\* The try block around the ranking parse: it throws when the content is
\* undefined (.match of undefined) or JSON.parse rejects the match; a reply
\* without any match throws nothing.
SearchParseThrows(reply) ==
  \/ ~reply.hasContent
  \/ reply.hasArray /\ ~reply.validJson

ParseRankings(reply, segments, query) ==
  IF SearchParseThrows(reply) THEN FallbackRankings(segments, query)
  ELSE IF reply.hasArray THEN reply.array
  ELSE <<>>

\* segments[rank.index] is undefined.
NoSegmentAt(segments, rank) ==
  \/ ~rank.index.has
  \/ rank.index.v < 0
  \/ rank.index.v >= Len(segments)

\* objects[filters.objectName] || 0
ObjectCount(objects, name) ==
  IF \E o \in objects : o[1] = name
    THEN (CHOOSE o \in objects : o[1] = name)[2]
    ELSE 0

\* filters?.objectName is truthy.
HasObjectFilter(filters) == filters.objectName # ""

\* Mutant: the count must exceed the minimum.
PassesObjectFilter_Exceeding(segments, rank, filters) ==
  ObjectCount(segments[rank.index.v + 1].detected_objects, filters.objectName)
    > (IF filters.minCount # 0 THEN filters.minCount ELSE 1)

\* count >= (filters.minCount || 1)
PassesObjectFilter(segments, rank, filters) ==
  ObjectCount(segments[rank.index.v + 1].detected_objects, filters.objectName)
    >= (IF filters.minCount # 0 THEN filters.minCount ELSE 1)

FilterRankings(segments, rankings, filters) ==
  IF HasObjectFilter(filters)
    THEN LET Keep(rank) == PassesObjectFilter(segments, rank, filters)
         IN  SelectSeq(rankings, Keep)
    ELSE rankings

\* The filter callback reads seg.detected_objects and the result builder
\* seg.id: either throws a TypeError when the segment is undefined.
ResultsThrow(segments, rankings) ==
  \E i \in 1..Len(rankings) : NoSegmentAt(segments, rankings[i])

SearchResult(segments, rank) ==
  LET seg == segments[rank.index.v + 1]
  IN  [video_id |-> seg.video_id, video_path |-> seg.video_path,
       timestamp_seconds |-> seg.timestamp_seconds,
       timestamp_display |-> seg.timestamp_display,
       description |-> seg.description, detected_objects |-> seg.detected_objects,
       by |-> seg.by,
       relevance_score |-> rank.relevance_score, relevance_reason |-> rank.reason]

SearchResults(segments, rankings, filters) ==
  LET kept == FilterRankings(segments, rankings, filters)
  IN  [i \in 1..Len(kept) |-> SearchResult(segments, kept[i])]

\* Mutant: the join does not restrict the status.
SelectReadySegments_AnyStatus(vids, rows, videoId) ==
  LET Keep(row) == /\ row.video_id \in DOMAIN vids
                   /\ (videoId # 0 => row.video_id = videoId)
      kept == SelectSeq(rows, Keep)
  IN  [i \in 1..Len(kept) |->
         [video_id |-> kept[i].video_id,
          video_path |-> vids[kept[i].video_id].storage_path,
          timestamp_seconds |-> kept[i].timestamp_seconds,
          timestamp_display |-> kept[i].timestamp_display,
          description |-> kept[i].description,
          transcript |-> kept[i].transcript,
          ocr_text |-> kept[i].ocr_text,
          detected_objects |-> kept[i].detected_objects,
          by |-> kept[i].by]]

\* video_segments joined to videos (videos!inner) with videos.status = 'ready'
\* and, when videoId is given, video_id = videoId.
SelectReadySegments(vids, rows, videoId) ==
  LET Keep(row) == /\ row.video_id \in DOMAIN vids
                   /\ vids[row.video_id].status = "ready"
                   /\ (videoId # 0 => row.video_id = videoId)
      kept == SelectSeq(rows, Keep)
  IN  [i \in 1..Len(kept) |->
         [video_id |-> kept[i].video_id,
          video_path |-> vids[kept[i].video_id].storage_path,
          timestamp_seconds |-> kept[i].timestamp_seconds,
          timestamp_display |-> kept[i].timestamp_display,
          description |-> kept[i].description,
          transcript |-> kept[i].transcript,
          ocr_text |-> kept[i].ocr_text,
          detected_objects |-> kept[i].detected_objects,
          by |-> kept[i].by]]

\* filters undefined.  A minCount of 0 also stands for a missing minCount:
\* both are falsy where the handler reads it.
NoFilters == [objectName |-> "", minCount |-> 0]

\* What the database held when the segments were selected: the videos that
\* were ready, the analyze-video invocations that had inserted and not yet
\* updated, and those that had updated (recorded with the request).
NothingAtFetch == [ready |-> {}, pending |-> {}, updated |-> {}]

AtFetch ==
  [ready   |-> {id \in DOMAIN videos : videos[id].status = "ready"},
   pending |-> {r \in AnalyzeReqs : analyze[r].pc = "update"},
   updated |-> {r \in AnalyzeReqs : analyze[r].updated}]

IdleSearch ==
  [pc |-> "idle", query |-> <<>>, videoId |-> 0, filters |-> NoFilters,
   segments |-> <<>>, gateway |-> 0, replyKind |-> "", missing |-> FALSE,
   llmCalls |-> 0,
   dbOps |-> 0, status |-> 0, error |-> "", headers |-> NoHeaders,
   message |-> "", atFetch |-> NothingAtFetch, rankings |-> <<>>, results |-> <<>>]

\* The body can be read and lacks the query.
SearchMissingField(body) == ~body.malformed /\ body.query = <<>>

\* Mutant: a missing query is not refused.
SearchValidate_NoQueryCheck(body) ==
  IF body.malformed THEN "Unexpected end of JSON input"
  ELSE IF ~apiKey THEN "LOVABLE_API_KEY is not configured"
  ELSE ""

SearchValidate(body) ==
  IF body.malformed THEN "Unexpected end of JSON input"
  ELSE IF body.query = <<>> THEN "Missing search query"
  ELSE IF ~apiKey THEN "LOVABLE_API_KEY is not configured"
  ELSE ""

SearchStart(r, body) ==
  /\ search[r].pc = "idle"
  /\ search' = [search EXCEPT ![r] =
       IF SearchValidate(body) # ""
         THEN [@ EXCEPT !.pc = "done", !.headers = JsonHeaders, !.query = body.query, !.status = 500,
                        !.missing = SearchMissingField(body),
                        !.error = SearchValidate(body)]
         ELSE [@ EXCEPT !.pc = "select", !.query = body.query,
                        !.missing = SearchMissingField(body),
                        !.videoId = body.videoId, !.filters = body.filters]]
  /\ UNCHANGED <<chat, client, apiKey, videos, nextVideoId, storage, video_segments,
                 video_qa_history, upload, del, analyze, qa>>

\* Mutant: an empty selection is sent to the gateway like any other.
SearchSelect_NoEmptyCheck(r, ok) ==
  /\ search[r].pc = "select"
  /\ LET q    == CallDatabase(search[r])
         segs == SelectReadySegments(videos, video_segments, q.videoId)
     IN  search' = [search EXCEPT ![r] =
           IF ~ok THEN [q EXCEPT !.pc = "done", !.headers = JsonHeaders,
                                 !.status = 500, !.error = "fetchError"]
           ELSE [q EXCEPT !.pc = "fetch", !.segments = segs, !.atFetch = AtFetch]]
  /\ UNCHANGED <<chat, client, apiKey, videos, nextVideoId, storage, video_segments,
                 video_qa_history, upload, del, analyze, qa>>

\* const { data: segments, error: fetchError } = await segmentsQuery
SearchSelect(r, ok) ==
  /\ search[r].pc = "select"
  /\ LET q    == CallDatabase(search[r])
         segs == SelectReadySegments(videos, video_segments, q.videoId)
     IN  search' = [search EXCEPT ![r] =
           IF ~ok THEN [q EXCEPT !.pc = "done", !.headers = JsonHeaders, !.status = 500, !.error = "fetchError"]
           ELSE IF Len(segs) = 0
             THEN [q EXCEPT !.pc = "done", !.headers = JsonHeaders, !.status = 200,
                            !.message = "No indexed content found"]
           ELSE [q EXCEPT !.pc = "fetch", !.segments = segs, !.atFetch = AtFetch]]
  /\ UNCHANGED <<chat, client, apiKey, videos, nextVideoId, storage, video_segments,
                 video_qa_history, upload, del, analyze, qa>>

\* Mutant: a ranking whose index refers to no segment is skipped.
SearchFetch_SkippingAbsent(r, status, reply) ==
  /\ search[r].pc = "fetch"
  /\ LET q  == [CallGateway(search[r]) EXCEPT !.pc = "done", !.headers = JsonHeaders, !.gateway = status]
         rk == ParseRankings(reply, q.segments, q.query)
         Present(rank) == ~NoSegmentAt(q.segments, rank)
     IN  search' = [search EXCEPT ![r] =
           IF status = 429
             THEN [q EXCEPT !.status = 429, !.error = "Rate limited. Please try again later."]
           ELSE IF status = 402
             THEN [q EXCEPT !.status = 402, !.error = "Payment required. Please add funds."]
           ELSE IF status # 200
             THEN [q EXCEPT !.status = 500, !.error = "AI gateway error"]
           ELSE [q EXCEPT !.status = 200, !.replyKind = ReplyKind(reply),
                          !.rankings = rk,
                          !.results = SearchResults(q.segments, SelectSeq(rk, Present),
                                                    q.filters)]]
  /\ UNCHANGED <<chat, client, apiKey, videos, nextVideoId, storage, video_segments,
                 video_qa_history, upload, del, analyze, qa>>

\* The gateway's answer arrives: the error responses, the parse, the filter,
\* the results.
SearchFetch(r, status, reply) ==
  /\ search[r].pc = "fetch"
  /\ LET q  == [CallGateway(search[r]) EXCEPT !.pc = "done", !.headers = JsonHeaders, !.gateway = status]
         rk == ParseRankings(reply, q.segments, q.query)
     IN  search' = [search EXCEPT ![r] =
           IF status = 429
             THEN [q EXCEPT !.status = 429, !.error = "Rate limited. Please try again later."]
           ELSE IF status = 402
             THEN [q EXCEPT !.status = 402, !.error = "Payment required. Please add funds."]
           ELSE IF status # 200
             THEN [q EXCEPT !.status = 500, !.error = "AI gateway error"]
           ELSE IF ResultsThrow(q.segments, rk)
             THEN [q EXCEPT !.status = 500, !.error = "TypeError",
                            !.replyKind = ReplyKind(reply),
                            !.rankings = rk]
           ELSE [q EXCEPT !.status = 200, !.replyKind = ReplyKind(reply),
                          !.rankings = rk,
                          !.results = SearchResults(q.segments, rk, q.filters)]]
  /\ UNCHANGED <<chat, client, apiKey, videos, nextVideoId, storage, video_segments,
                 video_qa_history, upload, del, analyze, qa>>

(* ------------------------------ video-qa ----------------------------- *)

\* A gateway reply body of video-qa: content (|| "" when missing), hasObject
\* whether /\{[\s\S]*\}/ matches it, validJson whether JSON.parse accepts
\* the match, answer and relevant_timestamps the parsed object's properties.
QaReply(content, hasObject, validJson, answer, timestamps) ==
  [content |-> content, hasObject |-> hasObject, validJson |-> validJson,
   answer |-> answer, relevant_timestamps |-> timestamps]

NoList == [has |-> FALSE, v |-> <<>>]

QaParsed(reply) == reply.hasObject /\ reply.validJson

\* Which case of the structured parse a reply falls in.
QaReplyKind(reply) ==
  IF ~reply.hasObject THEN "noobject"
  ELSE IF ~reply.validJson THEN "badjson"
  ELSE "object"

\* Mutant: a reply that does not parse gives an empty answer.
QaAnswer_EmptyOnFailure(reply) ==
  IF QaParsed(reply) THEN OrStr(reply.answer, reply.content) ELSE <<>>

\* answer = parsed.answer || content, or the content when nothing parses.
QaAnswer(reply) ==
  IF QaParsed(reply) THEN OrStr(reply.answer, reply.content) ELSE reply.content

\* relevantTimestamps = parsed.relevant_timestamps || [], or [].
QaTimestamps(reply) ==
  IF QaParsed(reply) /\ reply.relevant_timestamps.has
    THEN reply.relevant_timestamps.v ELSE <<>>

IdleQa ==
  [pc |-> "idle", question |-> <<>>, videoId |-> 0, gateway |-> 0,
   replyKind |-> "", content |-> <<>>, missing |-> FALSE,
   llmCalls |-> 0, dbOps |-> 0,
   historyWritten |-> FALSE, status |-> 0, error |-> "", headers |-> NoHeaders,
   answer |-> <<>>,
   relevant_timestamps |-> <<>>]

\* The body can be read and lacks the question or videoId.
QaMissingField(body) == ~body.malformed /\ (body.question = <<>> \/ body.videoId = 0)

QaValidate(body) ==
  IF body.malformed THEN "Unexpected end of JSON input"
  ELSE IF body.question = <<>> \/ body.videoId = 0 THEN "Missing question or videoId"
  ELSE IF ~apiKey THEN "LOVABLE_API_KEY is not configured"
  ELSE ""

QaStart(r, body) ==
  /\ qa[r].pc = "idle"
  /\ qa' = [qa EXCEPT ![r] =
       IF QaValidate(body) # ""
         THEN [@ EXCEPT !.pc = "done", !.headers = JsonHeaders, !.status = 500, !.error = QaValidate(body),
                        !.missing = QaMissingField(body)]
         ELSE [@ EXCEPT !.pc = "video", !.question = body.question,
                        !.missing = QaMissingField(body),
                        !.videoId = body.videoId]]
  /\ UNCHANGED <<chat, client, apiKey, videos, nextVideoId, storage, video_segments,
                 video_qa_history, upload, del, analyze, search>>

\* Mutant: a missing video is not looked at.
QaVideo_NotChecked(r, ok) ==
  /\ qa[r].pc = "video"
  /\ LET q == CallDatabase(qa[r])
     IN  qa' = [qa EXCEPT ![r] =
           IF ok THEN [q EXCEPT !.pc = "segments"]
           ELSE [q EXCEPT !.pc = "done", !.headers = JsonHeaders, !.status = 500, !.error = "Video not found"]]
  /\ UNCHANGED <<chat, client, apiKey, videos, nextVideoId, storage, video_segments,
                 video_qa_history, upload, del, analyze, search>>

\* supabase.from("videos").select("*").eq("id", videoId).single()
QaVideo(r, ok) ==
  /\ qa[r].pc = "video"
  /\ LET q == CallDatabase(qa[r])
     IN  qa' = [qa EXCEPT ![r] =
           IF ok /\ q.videoId \in DOMAIN videos
             THEN [q EXCEPT !.pc = "segments"]
             ELSE [q EXCEPT !.pc = "done", !.headers = JsonHeaders, !.status = 500, !.error = "Video not found"]]
  /\ UNCHANGED <<chat, client, apiKey, videos, nextVideoId, storage, video_segments,
                 video_qa_history, upload, del, analyze, search>>

\* supabase.from("video_segments").select("*").eq("video_id", videoId).order(...)
\* The rows only feed the prompt.
QaSegments(r, ok) ==
  /\ qa[r].pc = "segments"
  /\ LET q == CallDatabase(qa[r])
     IN  qa' = [qa EXCEPT ![r] =
           IF ok THEN [q EXCEPT !.pc = "fetch"]
           ELSE [q EXCEPT !.pc = "done", !.headers = JsonHeaders, !.status = 500, !.error = "segError"]]
  /\ UNCHANGED <<chat, client, apiKey, videos, nextVideoId, storage, video_segments,
                 video_qa_history, upload, del, analyze, search>>

\* Mutant: every failure of the gateway is answered with the gateway's status.
QaFetch_PassingStatus(r, status, reply) ==
  /\ qa[r].pc = "fetch"
  /\ LET q == [CallGateway(qa[r]) EXCEPT !.gateway = status]
     IN  qa' = [qa EXCEPT ![r] =
           IF status # 200
             THEN [q EXCEPT !.pc = "done", !.headers = JsonHeaders, !.status = status, !.error = "AI gateway error"]
           ELSE [q EXCEPT !.pc = "history", !.replyKind = QaReplyKind(reply),
                          !.content = reply.content,
                          !.answer = QaAnswer(reply),
                          !.relevant_timestamps = QaTimestamps(reply)]]
  /\ UNCHANGED <<chat, client, apiKey, videos, nextVideoId, storage, video_segments,
                 video_qa_history, upload, del, analyze, search>>

\* The gateway's answer arrives: the error responses, the structured parse.
QaFetch(r, status, reply) ==
  /\ qa[r].pc = "fetch"
  /\ LET q == [CallGateway(qa[r]) EXCEPT !.gateway = status]
     IN  qa' = [qa EXCEPT ![r] =
           IF status = 429
             THEN [q EXCEPT !.pc = "done", !.headers = JsonHeaders, !.status = 429,
                            !.error = "Rate limited. Please try again later."]
           ELSE IF status = 402
             THEN [q EXCEPT !.pc = "done", !.headers = JsonHeaders, !.status = 402,
                            !.error = "Payment required. Please add funds."]
           ELSE IF status # 200
             THEN [q EXCEPT !.pc = "done", !.headers = JsonHeaders, !.status = 500, !.error = "AI gateway error"]
           ELSE [q EXCEPT !.pc = "history", !.replyKind = QaReplyKind(reply),
                          !.content = reply.content,
                          !.answer = QaAnswer(reply),
                          !.relevant_timestamps = QaTimestamps(reply)]]
  /\ UNCHANGED <<chat, client, apiKey, videos, nextVideoId, storage, video_segments,
                 video_qa_history, upload, del, analyze, search>>

QaHistoryRow(q) ==
  [video_id |-> q.videoId, question |-> q.question, answer |-> q.answer,
   relevant_timestamps |-> q.relevant_timestamps]

\* Mutant: an insert that fails is answered with a 500.
QaHistory_Surfacing(r, ok) ==
  /\ qa[r].pc = "history"
  /\ LET q == [CallDatabase(qa[r]) EXCEPT !.pc = "done", !.headers = JsonHeaders, !.status = 200]
     IN  IF ok /\ ForeignKeyHolds(videos, <<QaHistoryRow(q)>>)
           THEN /\ video_qa_history' = Append(video_qa_history, QaHistoryRow(q))
                /\ qa' = [qa EXCEPT ![r] = [q EXCEPT !.historyWritten = TRUE]]
           ELSE /\ qa' = [qa EXCEPT ![r] =
                            [q EXCEPT !.status = 500, !.error = "insertError"]]
                /\ UNCHANGED video_qa_history
  /\ UNCHANGED <<chat, client, apiKey, videos, nextVideoId, storage, video_segments,
                 upload, del, analyze, search>>

\* supabase.from("video_qa_history").insert({...}): an error is only logged.
QaHistory(r, ok) ==
  /\ qa[r].pc = "history"
  /\ LET q == [CallDatabase(qa[r]) EXCEPT !.pc = "done", !.headers = JsonHeaders, !.status = 200]
     IN  IF ok /\ ForeignKeyHolds(videos, <<QaHistoryRow(q)>>)
           THEN /\ video_qa_history' = Append(video_qa_history, QaHistoryRow(q))
                /\ qa' = [qa EXCEPT ![r] = [q EXCEPT !.historyWritten = TRUE]]
           ELSE /\ qa' = [qa EXCEPT ![r] = q]
                /\ UNCHANGED video_qa_history
  /\ UNCHANGED <<chat, client, apiKey, videos, nextVideoId, storage, video_segments,
                 upload, del, analyze, search>>

(* ------------------------------ the page ----------------------------- *)

\* A JavaScript number that may be NaN.
JsNum(n) == [nan |-> FALSE, v |-> n]

NaN == [nan |-> TRUE, v |-> 0]

\* a * k and a + b: NaN is absorbing.
Times(a, k) == IF a.nan THEN NaN ELSE JsNum(a.v * k)

Plus(a, b) == IF a.nan \/ b.nan THEN NaN ELSE JsNum(a.v + b.v)

IsDigit(c) == \E d \in 0..9 : Digit(d) = c

DigitValue(c) == CHOOSE d \in 0..9 : Digit(d) = c

RECURSIVE DigitsValue(_)
DigitsValue(s) ==
  IF s = <<>> THEN 0
  ELSE 10 * DigitsValue(SubSeq(s, 1, Len(s) - 1)) + DigitValue(s[Len(s)])

AllDigits(s) == \A i \in 1..Len(s) : IsDigit(s[i])

\* Number(s) of a text of digits, signs and other characters (no blank,
\* point or exponent): "" is 0, digits are their decimal value, one leading
\* sign before digits is applied, the rest is NaN.
ToNumber(s) ==
  IF AllDigits(s) THEN JsNum(DigitsValue(s))
  ELSE IF Head(s) \in {"-", "+"} /\ Len(s) > 1 /\ AllDigits(Tail(s))
    THEN JsNum(IF Head(s) = "-" THEN -DigitsValue(Tail(s)) ELSE DigitsValue(Tail(s)))
  ELSE NaN

RECURSIVE SplitColonFrom(_, _, _, _)
SplitColonFrom(s, i, cur, out) ==
  IF i > Len(s) THEN Append(out, cur)
  ELSE IF s[i] = ":" THEN SplitColonFrom(s, i + 1, <<>>, Append(out, cur))
  ELSE SplitColonFrom(s, i + 1, Append(cur, s[i]), out)

\* s.split(":").map(Number): every colon separates, "" gives one part.
SplitColonNumbers(s) ==
  LET parts == SplitColonFrom(s, 1, <<>>, <<>>)
  IN  [i \in 1..Len(parts) |-> ToNumber(parts[i])]

\* Index.handleTimestampClick: the value it passes to setSeekToTime.
handleTimestampClick(timestamp) ==
  LET parts == SplitColonNumbers(timestamp)
  IN  IF Len(parts) = 3
        THEN Plus(Plus(Times(parts[1], 3600), Times(parts[2], 60)), parts[3])
      ELSE IF Len(parts) = 2
        THEN Plus(Times(parts[1], 60), parts[2])
      ELSE JsNum(0)

\* VideoQA.parseTimestamp
parseTimestamp(ts) ==
  LET parts == SplitColonNumbers(ts)
  IN  IF Len(parts) = 3
        THEN Plus(Plus(Times(parts[1], 3600), Times(parts[2], 60)), parts[3])
      ELSE IF Len(parts) = 2
        THEN Plus(Times(parts[1], 60), parts[2])
      ELSE JsNum(0)

\* No value yet (useState<number | undefined>(undefined)).
NoSeek == [has |-> FALSE, v |-> JsNum(0)]

\* seconds is a number of seconds handed to formatTimestamp, timestamp a text
\* shown as a clickable timestamp, seekToTime the state of Index, parsed what
\* parseTimestamp returned.
IdleClient ==
  [pc |-> "idle", seconds |-> NoNum, timestamp |-> <<>>,
   seekToTime |-> NoSeek, parsed |-> NoSeek]

\* formatTimestamp(seconds) of the handler: the text becomes a timestamp shown.
FormatTimestamp ==
  /\ client.pc = "seconds"
  /\ client' = [client EXCEPT !.pc = "shown",
                               !.timestamp = formatTimestamp(client.seconds.v)]
  /\ UNCHANGED <<chat, apiKey, videos, nextVideoId, storage, video_segments,
                 video_qa_history, upload, del, analyze, search, qa>>

\* A click on the timestamp shown: setSeekToTime(seconds).
TimestampClick ==
  /\ client.pc = "shown"
  /\ ~client.seekToTime.has
  /\ client' = [client EXCEPT !.seekToTime = Some(handleTimestampClick(client.timestamp))]
  /\ UNCHANGED <<chat, apiKey, videos, nextVideoId, storage, video_segments,
                 video_qa_history, upload, del, analyze, search, qa>>

\* parseTimestamp applied to the timestamp shown.
ParseTimestamp ==
  /\ client.pc = "shown"
  /\ ~client.parsed.has
  /\ client' = [client EXCEPT !.parsed = Some(parseTimestamp(client.timestamp))]
  /\ UNCHANGED <<chat, apiKey, videos, nextVideoId, storage, video_segments,
                 video_qa_history, upload, del, analyze, search, qa>>

(* ------------------------ the page: VideoQA -------------------------- *)

\* Most mounts of the VideoQA panel, and most questions submitted.
MaxMounts == 2

MaxQuestions == 3

\* The panel before a video is selected: no VideoQA is mounted (videoId 0).
\* instance numbers the mounts; inFlight holds the askVideoQuestion calls not
\* yet settled, each with the mount and the videoId of its handleSubmit.
IdleChat ==
  [videoId |-> 0, instance |-> 0, messages |-> <<>>, input |-> <<>>,
   isLoading |-> FALSE, inFlight |-> {}, asked |-> 0]

Mounted == chat.videoId # 0

\* { role, content } of the list, with the videoId its question was asked for.
Message(role, content, about) == [role |-> role, content |-> content, about |-> about]

Apology ==
  <<"S","o","r","r","y",","," ","I"," ","c","o","u","l","d","n","'","t"," ",
    "p","r","o","c","e","s","s"," ","y","o","u","r"," ","q","u","e","s","t","i","o","n",".",
    " ","P","l","e","a","s","e"," ","t","r","y"," ","a","g","a","i","n",".">>

\* setSelectedVideo(video) of handleVideoSelect, from the library or from a
\* search result of another video (handleSearchResultClick), for a video that
\* is ready:
\* the first selection mounts a VideoQA with fresh state; another video
\* changes the videoId prop of the mounted one, and the effect on [videoId]
\* empties the list (input and isLoading stay).
ChatSelect(v) ==
  /\ v \in DOMAIN videos /\ videos[v].status = "ready"
  /\ v # chat.videoId
  /\ IF Mounted
       THEN chat' = [chat EXCEPT !.videoId = v, !.messages = <<>>]
       ELSE /\ chat.instance < MaxMounts
            /\ chat' = [chat EXCEPT !.videoId = v, !.instance = @ + 1,
                                    !.messages = <<>>, !.input = <<>>,
                                    !.isLoading = FALSE]
  /\ UNCHANGED <<client, apiKey, videos, nextVideoId, storage, video_segments,
                 video_qa_history, upload, del, analyze, search, qa>>

\* "Back to Library": setSelectedVideo(null) unmounts the panel and its state
\* is gone; a call in flight stays in flight.
ChatBack ==
  /\ Mounted
  /\ chat' = [chat EXCEPT !.videoId = 0, !.messages = <<>>, !.input = <<>>,
                          !.isLoading = FALSE]
  /\ UNCHANGED <<client, apiKey, videos, nextVideoId, storage, video_segments,
                 video_qa_history, upload, del, analyze, search, qa>>

\* onChange of the input: setInput(e.target.value)
ChatType(text) ==
  /\ Mounted
  /\ text # chat.input
  /\ chat' = [chat EXCEPT !.input = text]
  /\ UNCHANGED <<client, apiKey, videos, nextVideoId, storage, video_segments,
                 video_qa_history, upload, del, analyze, search, qa>>

\* handleSubmit up to the await: nothing happens for a blank input or while
\* isLoading; otherwise the input is cleared, the user message appended,
\* isLoading set and askVideoQuestion(videoId, userMessage) called.
ChatSubmit ==
  /\ Mounted
  /\ chat.asked < MaxQuestions
  /\ ~(Trim(chat.input) = <<>> \/ chat.isLoading)
  /\ chat' = [chat EXCEPT
       !.input = <<>>,
       !.messages = Append(@, Message("user", Trim(chat.input), chat.videoId)),
       !.isLoading = TRUE,
       !.inFlight = @ \cup {[instance |-> chat.instance, about |-> chat.videoId]},
       !.asked = @ + 1]
  /\ UNCHANGED <<client, apiKey, videos, nextVideoId, storage, video_segments,
                 video_qa_history, upload, del, analyze, search, qa>>

\* askVideoQuestion settles: the answer, or the apology when it threw, is
\* appended and isLoading reset, whatever the videoId is by then; the updates
\* of an unmounted panel are dropped.
ChatAnswer(call, ok, answer) ==
  /\ call \in chat.inFlight
  /\ IF Mounted /\ call.instance = chat.instance
       THEN chat' = [chat EXCEPT
              !.inFlight = @ \ {call},
              !.messages = Append(@, Message("assistant",
                                             IF ok THEN answer ELSE Apology,
                                             call.about)),
              !.isLoading = FALSE]
       ELSE chat' = [chat EXCEPT !.inFlight = @ \ {call}]
  /\ UNCHANGED <<client, apiKey, videos, nextVideoId, storage, video_segments,
                 video_qa_history, upload, del, analyze, search, qa>>

(* --------------------------- the environment ------------------------- *)

SeqsUpTo(S, n) == UNION {[1..k -> S] : k \in 0..n}

\* response.status of the gateway: a success, the two statuses the handlers
\* name, and another failure.
GatewayStatuses == {200, 429, 402, 503}

PersonDescription == <<"A"," ","p","e","r","s","o","n"," ","w","a","l","k","s">>

\* Array elements of a model reply: without a timestamp, with one, with a
\* description and objects, and the literal null.
SegPlain == Seg(NoNum, NoStr, NoStr, NoObj, NoStr)

SegLate == Seg(Some(45), NoStr, NoStr, Some({<<"car", 1>>, <<"person", 1>>}), NoStr)

\* A timestamp_seconds below zero.
SegNegative == Seg(Some(-5), NoStr, NoStr, NoObj, NoStr)

SegPerson == Seg(Some(0), Some(PersonDescription), NoStr, Some({<<"person", 2>>}), NoStr)

Unparseable ==
  { Reply(FALSE, FALSE, FALSE, <<>>), Reply(TRUE, FALSE, FALSE, <<>>),
    Reply(TRUE, TRUE, FALSE, <<>>) }

Parsed(arrays) == { Reply(TRUE, TRUE, TRUE, a) : a \in arrays }

\* The replies of the gateway to analyze-video.
AnalyzeReplies ==
  Unparseable \cup Parsed(SeqsUpTo({SegPlain, SegLate}, MaxSegs))

AnalyzeRepliesFew ==
  Unparseable \cup Parsed({<<>>, <<SegPerson, SegLate>>, <<NullSeg>>, <<SegNegative>>})

\* Request bodies: unreadable JSON, a missing field, or the id of a video.
AnalyzeBodies(ids) ==
  { [malformed |-> TRUE, videoId |-> 0, videoUrl |-> FALSE] }
    \cup [malformed : {FALSE}, videoId : {0} \cup ids, videoUrl : BOOLEAN]

QueryPerson == <<"P","e","r","s","o","n">>

SearchBodiesFew ==
  { [malformed |-> TRUE, query |-> <<>>, videoId |-> 0, filters |-> NoFilters],
    [malformed |-> FALSE, query |-> <<>>, videoId |-> 0, filters |-> NoFilters],
    [malformed |-> FALSE, query |-> QueryPerson, videoId |-> 0, filters |-> NoFilters] }

RankEntries ==
  { Ranking(Some(0), Score(95, 100), "model"),
    Ranking(Some(1), Score(20, 100), "model"),
    Ranking(Some(8), Score(50, 100), "model"),
    Ranking(Some(-1), Score(50, 100), "model"),
    Ranking(NoNum, Score(50, 100), "model") }

SearchRepliesFew ==
  { Reply(TRUE, FALSE, FALSE, <<>>), Reply(TRUE, TRUE, FALSE, <<>>) }
    \cup Parsed({<<Ranking(Some(0), Score(95, 100), "model")>>})

Question == <<"W","h","o","?">>

PlainAnswer == <<"N","o"," ","o","n","e">>

JsonAnswer == <<"A"," ","m","a","n">>

Stamp == <<"0","0",":","0","0",":","3","0">>

QaBodies(ids) ==
  { [malformed |-> TRUE, question |-> <<>>, videoId |-> 0] }
    \cup [malformed : {FALSE}, question : {<<>>, Question}, videoId : {0} \cup ids]

QaReplies ==
  { QaReply(<<>>, FALSE, FALSE, NoStr, NoList),
    QaReply(PlainAnswer, FALSE, FALSE, NoStr, NoList),
    QaReply(PlainAnswer, TRUE, FALSE, NoStr, NoList),
    QaReply(PlainAnswer, TRUE, TRUE, NoStr, NoList),
    QaReply(PlainAnswer, TRUE, TRUE, Some(JsonAnswer), Some(<<Stamp>>)) }

(* -------------------------- the specifications ----------------------- *)

Init ==
  /\ apiKey \in BOOLEAN
  /\ videos = <<>>
  /\ nextVideoId = 1
  /\ storage = {}
  /\ video_segments = <<>>
  /\ video_qa_history = <<>>
  /\ upload = [u \in Uploads |-> IdleUpload]
  /\ del = [d \in Deletes |-> IdleDelete]
  /\ analyze = [r \in AnalyzeReqs |-> IdleAnalyze]
  /\ search = [r \in SearchReqs |-> IdleSearch]
  /\ qa = [r \in QaReqs |-> IdleQa]
  /\ chat = IdleChat
  /\ client = IdleClient

\* The client's writers and one invocation of each handler, on one video.
Next ==
  \/ \E ok \in BOOLEAN : UploadStorage(1, ok)
  \/ \E ok \in BOOLEAN : UploadInsert(1, ok)
  \/ UploadInvoke(1, 1)
  \/ UploadReturn(1)
  \/ \E d \in Deletes, ok \in BOOLEAN : DeleteGet(d, 1, ok)
  \/ \E d \in Deletes, ok \in BOOLEAN : DeleteRemove(d, ok)
  \/ \E d \in Deletes, ok \in BOOLEAN : DeleteRow(d, ok)
  \/ \E body \in AnalyzeBodies({1}) : AnalyzeStart(1, body)
  \/ \E st \in GatewayStatuses, reply \in AnalyzeRepliesFew : AnalyzeFetch(1, st, reply)
  \/ \E ok \in BOOLEAN : AnalyzeInsert(1, ok)
  \/ \E ok \in BOOLEAN : AnalyzeUpdate(1, ok)
  \/ \E r \in SearchReqs, body \in SearchBodiesFew : SearchStart(r, body)
  \/ \E r \in SearchReqs, ok \in BOOLEAN : SearchSelect(r, ok)
  \/ \E r \in SearchReqs, st \in GatewayStatuses, reply \in SearchRepliesFew :
       SearchFetch(r, st, reply)
  \/ \E r \in QaReqs, body \in QaBodies({1}) : QaStart(r, body)
  \/ \E r \in QaReqs, ok \in BOOLEAN : QaVideo(r, ok)
  \/ \E r \in QaReqs, ok \in BOOLEAN : QaSegments(r, ok)
  \/ \E r \in QaReqs, st \in GatewayStatuses, reply \in QaReplies : QaFetch(r, st, reply)
  \/ \E r \in QaReqs, ok \in BOOLEAN : QaHistory(r, ok)

Spec == Init /\ [][Next]_vars

\* analyze-video alone, invoked twice, against an upload and a deletion.
NextAnalyze ==
  \/ \E ok \in BOOLEAN : UploadStorage(1, ok)
  \/ \E ok \in BOOLEAN : UploadInsert(1, ok)
  \/ \E r \in AnalyzeReqs : UploadInvoke(1, r)
  \/ UploadReturn(1)
  \/ \E d \in Deletes, ok \in BOOLEAN : DeleteGet(d, 1, ok)
  \/ \E d \in Deletes, ok \in BOOLEAN : DeleteRemove(d, ok)
  \/ \E d \in Deletes, ok \in BOOLEAN : DeleteRow(d, ok)
  \/ \E r \in AnalyzeReqs, body \in AnalyzeBodies({1}) : AnalyzeStart(r, body)
  \/ \E r \in AnalyzeReqs, st \in GatewayStatuses, reply \in AnalyzeReplies :
       AnalyzeFetch(r, st, reply)
  \/ \E r \in AnalyzeReqs, ok \in BOOLEAN : AnalyzeInsert(r, ok)
  \/ \E r \in AnalyzeReqs, ok \in BOOLEAN : AnalyzeUpdate(r, ok)

SpecAnalyze == Init /\ [][NextAnalyze]_vars

\* Longest ranking array a model reply of search-videos carries.
MaxRanks == 2

QueryFour ==
  <<"p","e","r","s","o","n"," ","c","a","r"," "," ","t","r","e","e"," ","m","o","o","n">>

PersonFilter == [objectName |-> "person", minCount |-> 2]

\* filters: {objectName: "person", minCount: 0}
PersonFilterZero == [objectName |-> "person", minCount |-> 0]

\* Request bodies: unreadable JSON, no query, a query over all videos or one,
\* and a query with an object filter.
SearchBodies ==
  { [malformed |-> TRUE, query |-> <<>>, videoId |-> 0, filters |-> NoFilters],
    [malformed |-> FALSE, query |-> <<>>, videoId |-> 0, filters |-> NoFilters],
    [malformed |-> FALSE, query |-> QueryFour, videoId |-> 0, filters |-> NoFilters] }
    \cup [malformed : {FALSE}, query : {QueryPerson}, videoId : {0, 1},
          filters : {NoFilters}]
    \cup [malformed : {FALSE}, query : {QueryPerson}, videoId : {0},
          filters : {PersonFilter, PersonFilterZero}]

SearchReplies == Unparseable \cup Parsed(SeqsUpTo(RankEntries, MaxRanks))

\* The replies to analyze-video that fill the tables searched: the fallback
\* list, and two segments of which one mentions a person.
AnalyzeRepliesSearch ==
  { Reply(TRUE, FALSE, FALSE, <<>>) } \cup Parsed({<<SegPerson, SegLate>>})

\* search-videos against two uploads and their analyses.
NextSearch ==
  \/ \E u \in Uploads : UploadStorage(u, TRUE)
  \/ \E u \in Uploads : UploadInsert(u, TRUE)
  \/ \E u \in Uploads, r \in AnalyzeReqs : UploadInvoke(u, r)
  \/ \E u \in Uploads : UploadReturn(u)
  \/ \E r \in AnalyzeReqs, reply \in AnalyzeRepliesSearch : AnalyzeFetch(r, 200, reply)
  \/ \E r \in AnalyzeReqs : AnalyzeInsert(r, TRUE)
  \/ \E r \in AnalyzeReqs : AnalyzeUpdate(r, TRUE)
  \/ \E r \in SearchReqs, body \in SearchBodies : SearchStart(r, body)
  \/ \E r \in SearchReqs, ok \in BOOLEAN : SearchSelect(r, ok)
  \/ \E r \in SearchReqs, st \in GatewayStatuses, reply \in SearchReplies :
       SearchFetch(r, st, reply)

SpecSearch == Init /\ [][NextSearch]_vars

\* Longest text handed to the client's parsers.
MaxStampLen == 4

\* The characters of those texts: digits, the colon, and a letter.
StampChars == {"0", "1", "7", ":", "x"}

\* The seconds of one day.
DaySeconds == 24 * 3600

\* The timestamp functions: a number of seconds to format, or any text to
\* parse.
InitTimestamp ==
  /\ apiKey = TRUE
  /\ videos = <<>>
  /\ nextVideoId = 1
  /\ storage = {}
  /\ video_segments = <<>>
  /\ video_qa_history = <<>>
  /\ upload = [u \in Uploads |-> IdleUpload]
  /\ del = [d \in Deletes |-> IdleDelete]
  /\ analyze = [r \in AnalyzeReqs |-> IdleAnalyze]
  /\ search = [r \in SearchReqs |-> IdleSearch]
  /\ qa = [r \in QaReqs |-> IdleQa]
  /\ chat = IdleChat
  /\ \/ \E S \in 0..(DaySeconds - 1) :
          client = [IdleClient EXCEPT !.pc = "seconds", !.seconds = Some(S)]
     \/ \E ts \in SeqsUpTo(StampChars, MaxStampLen) :
          client = [IdleClient EXCEPT !.pc = "shown", !.timestamp = ts]

NextTimestamp ==
  \/ FormatTimestamp
  \/ TimestampClick
  \/ ParseTimestamp

SpecTimestamp == InitTimestamp /\ [][NextTimestamp]_vars

\* What is typed: nothing, a blank, a question with blanks around it.
ChatInputs == {<<>>, <<" ">>, <<" ">> \o Question \o <<" ">>}

\* The askVideoQuestion calls there can be: one per mount and video.
ChatCalls == [instance : 1..MaxMounts, about : VideoIds]

\* The tables after two uploads whose analyses stored the fallback segments.
ReadyVideos ==
  [id \in VideoIds |->
     UpdateVideoReady([v \in VideoIds |-> VideoRow(v)], id,
                      DurationSeconds(FallbackSegments(Some(Title))))[id]]

ReadySegments ==
  SegmentRecords(1, FallbackSegments(Some(Title)), 1)
    \o SegmentRecords(2, FallbackSegments(Some(Title)), 2)

\* The page opened on a library of two ready videos.
InitChat ==
  /\ apiKey = TRUE
  /\ videos = ReadyVideos
  /\ nextVideoId = 3
  /\ storage = VideoIds
  /\ video_segments = ReadySegments
  /\ video_qa_history = <<>>
  /\ upload = [u \in Uploads |-> IdleUpload]
  /\ del = [d \in Deletes |-> IdleDelete]
  /\ analyze = [r \in AnalyzeReqs |-> IdleAnalyze]
  /\ search = [r \in SearchReqs |-> IdleSearch]
  /\ qa = [r \in QaReqs |-> IdleQa]
  /\ client = IdleClient
  /\ chat = IdleChat

\* The VideoQA panel: selecting videos, typing, asking, answers arriving.
NextChat ==
  \/ \E v \in VideoIds : ChatSelect(v)
  \/ ChatBack
  \/ \E text \in ChatInputs : ChatType(text)
  \/ ChatSubmit
  \/ \E call \in ChatCalls, ok \in BOOLEAN : ChatAnswer(call, ok, PlainAnswer)

SpecChat == InitChat /\ [][NextChat]_vars

\* A request to analyze the first video again, by any caller.
AnalyzeAgainBody == [malformed |-> FALSE, videoId |-> 1, videoUrl |-> TRUE]

SearchBodiesScoped ==
  [malformed : {FALSE}, query : {QueryPerson}, videoId : {0, 1}, filters : {NoFilters}]

SearchRepliesRanked ==
  { Reply(FALSE, FALSE, FALSE, <<>>) }
    \cup Parsed({<<Ranking(Some(0), Score(95, 100), "model"),
                   Ranking(Some(1), Score(50, 100), "model")>>})

\* search-videos against two uploads whose videos are analysed on upload,
\* the first one possibly a second time.
NextReanalyze ==
  \/ \E u \in Uploads : UploadStorage(u, TRUE)
  \/ \E u \in Uploads : UploadInsert(u, TRUE)
  \/ \E u \in Uploads, r \in AnalyzeReqs : UploadInvoke(u, r)
  \/ \E u \in Uploads : UploadReturn(u)
  \/ \E r \in AnalyzeReqs : AnalyzeStart(r, AnalyzeAgainBody)
  \/ \E r \in AnalyzeReqs, reply \in AnalyzeRepliesSearch : AnalyzeFetch(r, 200, reply)
  \/ \E r \in AnalyzeReqs : AnalyzeInsert(r, TRUE)
  \/ \E r \in AnalyzeReqs, ok \in BOOLEAN : AnalyzeUpdate(r, ok)
  \/ \E r \in SearchReqs, body \in SearchBodiesScoped : SearchStart(r, body)
  \/ \E r \in SearchReqs : SearchSelect(r, TRUE)
  \/ \E r \in SearchReqs, reply \in SearchRepliesRanked : SearchFetch(r, 200, reply)

SpecReanalyze == Init /\ [][NextReanalyze]_vars

(* ------------------------------ properties --------------------------- *)

\* The rows of video_segments that analyze-video invocation r inserted.
RowsBy(r) == LET Mine(row) == row.by = r IN SelectSeq(video_segments, Mine)

TimestampsOf(records) == [i \in 1..Len(records) |-> records[i].timestamp_seconds]

Succeeded(r) == analyze[r].pc = "done" /\ analyze[r].resp.success

\* C1: an analyze-video invocation that answers {success: true} wrote
\* duration_seconds = 30 + the largest timestamp_seconds of the rows it
\* inserted.
C1_DurationIsMaxInsertedPlus30 ==
  \A r \in AnalyzeReqs :
    Succeeded(r) /\ Len(analyze[r].segmentRecords) > 0 =>
      analyze[r].duration =
        Some(30 + MaxOf({analyze[r].segmentRecords[i].timestamp_seconds :
                           i \in 1..Len(analyze[r].segmentRecords)}))

\* C2: a reply that does not parse (content missing, no array in it, or an
\* array that is not JSON) makes the invocation insert the four fallback rows,
\* with timestamps 0, 30, 60 and 120, and nothing else; they stay until the
\* video is deleted.
C2_UnparseableReplyInsertsFallback ==
  \A r \in AnalyzeReqs :
    analyze[r].replyKind \in {"missing", "noarray", "badjson"} =>
      /\ TimestampsOf(analyze[r].segmentRecords) = <<0, 30, 60, 120>>
      /\ analyze[r].inserted /\ analyze[r].videoId \in DOMAIN videos =>
           RowsBy(r) = analyze[r].segmentRecords
      /\ ~analyze[r].inserted => RowsBy(r) = <<>>

C2_Witness ==
  \E r \in AnalyzeReqs :
    /\ analyze[r].replyKind = "noarray"
    /\ Succeeded(r)
    /\ TimestampsOf(RowsBy(r)) = <<0, 30, 60, 120>>
    /\ Len(video_segments) = 4

Answered(r) == search[r].pc = "done"

\* C3: when the reply carries no ranking that parses (content missing, no
\* array in it, or an array that is not JSON), the results of search-videos
\* are built from the rankings of the keyword scorer.
C3_UnparseableReplyUsesFallback ==
  \A r \in SearchReqs :
    /\ Answered(r) /\ search[r].status = 200
    /\ search[r].replyKind \in {"missing", "noarray", "badjson"}
    => search[r].results =
         SearchResults(search[r].segments,
                       FallbackRankings(search[r].segments, search[r].query),
                       search[r].filters)

PersonWord == <<"p","e","r","s","o","n">>

MentionsPerson(description) == Includes(ToLowerCase(description), PersonWord)

\* Two segments were fetched and exactly one mentions "person" in its
\* description; the query is "Person", without filters.
PersonScenario(r) ==
  /\ search[r].query = QueryPerson /\ search[r].filters = NoFilters
  /\ Len(search[r].segments) = 2
  /\ Cardinality({i \in 1..2 : MentionsPerson(search[r].segments[i].description)}) = 1

\* The one segment that mentions the person is the result, with score 1.0.
PersonFirst(r) ==
  /\ Len(search[r].results) = 1
  /\ MentionsPerson(search[r].results[1].description)
  /\ search[r].results[1].relevance_score = Score(1, 1)
  /\ search[r].results[1].relevance_reason = "Keyword matching fallback"

C5_ReadyVideoHasSegments ==
  \A id \in DOMAIN videos :
    videos[id].status = "ready" =>
      \E i \in 1..Len(video_segments) : video_segments[i].video_id = id

\* C6: every row of video_segments and of video_qa_history names a video
\* that exists.
C6_RowsReferenceVideos ==
  /\ \A i \in 1..Len(video_segments) : video_segments[i].video_id \in DOMAIN videos
  /\ \A i \in 1..Len(video_qa_history) : video_qa_history[i].video_id \in DOMAIN videos

\* A deletion that removed a video holding segments and a Q&A record.
C6_Witness ==
  /\ analyze[1].inserted /\ Len(analyze[1].segmentRecords) > 0
  /\ qa[1].historyWritten
  /\ del[1].pc = "returned" /\ del[1].path # 0
  /\ videos = <<>>
  /\ video_segments = <<>> /\ video_qa_history = <<>>

\* C7: when two invocations for the same video both answer success, the
\* table holds the rows of both, as long as the video exists.
C7_BothInsertionsKept ==
  \A r1, r2 \in AnalyzeReqs :
    /\ r1 # r2 /\ Succeeded(r1) /\ Succeeded(r2)
    /\ analyze[r1].videoId = analyze[r2].videoId
    /\ analyze[r1].videoId \in DOMAIN videos
    => /\ RowsBy(r1) = analyze[r1].segmentRecords
       /\ RowsBy(r2) = analyze[r2].segmentRecords
       /\ Len(video_segments) >= analyze[r1].resp.segmentsCreated
                                   + analyze[r2].resp.segmentsCreated

\* The second invocation inserted while the video was ready already, and
\* succeeded: the table holds the segments twice.
C7_Witness ==
  /\ Succeeded(1) /\ Succeeded(2)
  /\ analyze[2].sawReady
  /\ analyze[1].videoId = analyze[2].videoId
  /\ analyze[1].replyKind = "noarray" /\ analyze[2].replyKind = "noarray"
  /\ Len(video_segments) = 8
  /\ TimestampsOf(video_segments) = <<0, 30, 60, 120, 0, 30, 60, 120>>

\* An invocation whose insert succeeded and whose update failed.
UpdateFailed(r) ==
  analyze[r].pc = "done" /\ analyze[r].inserted /\ ~analyze[r].updated

\* C8: after a successful insert and a failed update the answer is a 500, the
\* rows stay (until the video is deleted), and the video is still processing
\* unless another invocation marked it ready.
C8_NoRollback ==
  \A r \in AnalyzeReqs :
    UpdateFailed(r) =>
      /\ analyze[r].resp.status = 500 /\ ~analyze[r].resp.success
      /\ analyze[r].videoId \in DOMAIN videos =>
           /\ RowsBy(r) = analyze[r].segmentRecords
           /\ (\A q \in AnalyzeReqs \ {r} : ~analyze[q].updated) =>
                videos[analyze[r].videoId].status = "processing"

C8_Witness ==
  \E r \in AnalyzeReqs :
    /\ UpdateFailed(r)
    /\ analyze[r].resp.status = 500
    /\ analyze[r].videoId \in DOMAIN videos
    /\ videos[analyze[r].videoId].status = "processing"
    /\ Len(RowsBy(r)) = 4

\* C9: without LOVABLE_API_KEY every invocation of analyze-video ends in a
\* 500 with no gateway call and no database operation, with the error
\* "LOVABLE_API_KEY is not configured" when its body is valid; no segment is
\* stored and every video stays processing.
C9_MissingKey ==
  ~apiKey =>
    /\ \A r \in AnalyzeReqs :
         /\ analyze[r].llmCalls = 0 /\ analyze[r].dbOps = 0
         /\ analyze[r].pc \in {"idle", "done"}
         /\ analyze[r].pc = "done" =>
              /\ analyze[r].resp.status = 500
              /\ analyze[r].bodyOk =>
                   analyze[r].resp.error = "LOVABLE_API_KEY is not configured"
    /\ video_segments = <<>>
    /\ \A id \in DOMAIN videos : videos[id].status = "processing"

\* The upload's own invocation was refused for the key.
C9_Witness ==
  /\ ~apiKey
  /\ upload[1].pc = "returned"
  /\ analyze[upload[1].req].pc = "done"
  /\ analyze[upload[1].req].resp.status = 500
  /\ analyze[upload[1].req].resp.error = "LOVABLE_API_KEY is not configured"
  /\ upload[1].videoId \in DOMAIN videos
  /\ videos[upload[1].videoId].status = "processing"

\* The invocations of the three handlers that have answered.
DoneCounts ==
  { <<"analyze", analyze[r].llmCalls, analyze[r].dbOps>> :
      r \in {q \in AnalyzeReqs : analyze[q].pc = "done"} }
  \cup { <<"search", search[r].llmCalls, search[r].dbOps>> :
      r \in {q \in SearchReqs : search[q].pc = "done"} }
  \cup { <<"qa", qa[r].llmCalls, qa[r].dbOps>> :
      r \in {q \in QaReqs : qa[q].pc = "done"} }

\* C10 as stated: at most one gateway call and one or two database
\* operations per invocation.
C10_OneCallOneOrTwoOperations ==
  \A c \in DoneCounts : c[2] <= 1 /\ c[3] >= 1 /\ c[3] <= 2

\* C10 amended: at most one gateway call per invocation, at any moment; at
\* most two database operations in analyze-video, one in search-videos and
\* three in video-qa, none of them on the paths that fail before the first;
\* the answers that succeed made exactly two (analyze-video), one
\* (search-videos) and three (video-qa).
C10_CallAndOperationCounts ==
  /\ \A r \in AnalyzeReqs :
       /\ analyze[r].llmCalls <= 1 /\ analyze[r].dbOps <= 2
       /\ Succeeded(r) => analyze[r].llmCalls = 1 /\ analyze[r].dbOps = 2
  /\ \A r \in SearchReqs :
       /\ search[r].llmCalls <= 1 /\ search[r].dbOps <= 1
       /\ search[r].pc = "done" /\ search[r].status = 200 => search[r].dbOps = 1
  /\ \A r \in QaReqs :
       /\ qa[r].llmCalls <= 1 /\ qa[r].dbOps <= 3
       /\ qa[r].pc = "done" /\ qa[r].status = 200 =>
            qa[r].llmCalls = 1 /\ qa[r].dbOps = 3

\* All three handlers answered with success; video-qa made three operations.
C10_Witness ==
  /\ Succeeded(1) /\ analyze[1].dbOps = 2
  /\ search[1].pc = "done" /\ search[1].status = 200 /\ search[1].llmCalls = 1
  /\ qa[1].pc = "done" /\ qa[1].status = 200 /\ qa[1].dbOps = 3

\* C11: for every whole number of seconds S of a day, the text formatTimestamp
\* makes of S is parsed back to S by handleTimestampClick and by
\* parseTimestamp; on every text the two parsers give the same value.
C11_TimestampRoundTrip ==
  /\ client.seconds.has /\ client.seekToTime.has =>
       client.seekToTime.v = JsNum(client.seconds.v)
  /\ client.seconds.has /\ client.parsed.has =>
       client.parsed.v = JsNum(client.seconds.v)
  /\ client.seekToTime.has /\ client.parsed.has =>
       client.seekToTime.v = client.parsed.v

\* 23:59:59 went through both parsers.
C11_Witness ==
  /\ client.seconds = Some(DaySeconds - 1)
  /\ client.timestamp = <<"2","3",":","5","9",":","5","9">>
  /\ client.seekToTime = Some(JsNum(86399))
  /\ client.parsed = Some(JsNum(86399))

\* C12: every row of video_segments has a timestamp_seconds that is not
\* negative and a timestamp_display that the colon-split arithmetic parses
\* back to it.
C12_StoredTimestampsParseBack ==
  \A i \in 1..Len(video_segments) :
    /\ video_segments[i].timestamp_seconds >= 0
    /\ handleTimestampClick(video_segments[i].timestamp_display)
         = JsNum(video_segments[i].timestamp_seconds)

\* The results the handler would build from the rankings whose segment
\* counts at least min objects of the filter's name.
ResultsWithAtLeast(r, min) ==
  LET Counted(rank) ==
        ObjectCount(search[r].segments[rank.index.v + 1].detected_objects,
                    search[r].filters.objectName) >= min
      kept == SelectSeq(search[r].rankings, Counted)
  IN  [i \in 1..Len(kept) |-> SearchResult(search[r].segments, kept[i])]

\* A search that answered results built from the reply or the fallback.
Ranked(r) == Answered(r) /\ search[r].status = 200 /\ search[r].gateway = 200

\* C13 as stated: with an objectName the results are those of the rankings
\* whose segment counts at least the requested minCount of that object.
C13_KeptIffCountAtLeastMinCount ==
  \A r \in SearchReqs :
    Ranked(r) /\ HasObjectFilter(search[r].filters) =>
      search[r].results = ResultsWithAtLeast(r, search[r].filters.minCount)

\* C13 amended: the minimum is the requested minCount, and 1 when minCount is
\* 0 or missing; a segment without the object counts 0; without an objectName
\* every ranking gives a result.
C13_KeptIffCountAtLeastEffectiveMinimum ==
  \A r \in SearchReqs :
    Ranked(r) =>
      /\ HasObjectFilter(search[r].filters) =>
           search[r].results =
             ResultsWithAtLeast(r, IF search[r].filters.minCount = 0 THEN 1
                                   ELSE search[r].filters.minCount)
      /\ ~HasObjectFilter(search[r].filters) =>
           /\ Len(search[r].results) = Len(search[r].rankings)
           /\ \A i \in 1..Len(search[r].rankings) :
                search[r].results[i] =
                  SearchResult(search[r].segments, search[r].rankings[i])

\* minCount 2 for "person": the ranked segment with two persons is kept and
\* the one with one person is not.
C13_Witness ==
  \E r \in SearchReqs :
    /\ Ranked(r) /\ search[r].filters = PersonFilter
    /\ Len(search[r].rankings) = 2 /\ Len(search[r].results) = 1
    /\ ObjectCount(search[r].results[1].detected_objects, "person") = 2
    /\ \E i \in 1..2 :
         ObjectCount(search[r].segments[search[r].rankings[i].index.v + 1].detected_objects,
                     "person") = 1

\* C14: a gateway status that is not a success ends the analyze-video
\* invocation with one gateway call, no database operation, no row of its own
\* and no update, and a 500 whose message is the rate-limit message for 429,
\* the payment message for 402 and the generic one otherwise; the video stays
\* processing unless another invocation marked it ready.
C14_GatewayFailureAborts ==
  \A r \in AnalyzeReqs :
    analyze[r].gateway \in {429, 402, 503} =>
      /\ analyze[r].pc = "done"
      /\ analyze[r].llmCalls = 1 /\ analyze[r].dbOps = 0
      /\ ~analyze[r].inserted /\ ~analyze[r].updated /\ RowsBy(r) = <<>>
      /\ analyze[r].resp.status = 500 /\ ~analyze[r].resp.success
      /\ analyze[r].resp.error =
           (IF analyze[r].gateway = 429 THEN "Rate limited. Please try again later."
            ELSE IF analyze[r].gateway = 402
              THEN "Payment required. Please add funds to your workspace."
            ELSE "AI gateway error")
      /\ ( /\ analyze[r].videoId \in DOMAIN videos
           /\ \A q \in AnalyzeReqs \ {r} : ~analyze[q].updated )
         => videos[analyze[r].videoId].status = "processing"

\* The upload's invocation was rate limited: the video stays processing with
\* no segment.
C14_Witness ==
  /\ upload[1].pc = "returned"
  /\ analyze[upload[1].req].gateway = 429
  /\ analyze[upload[1].req].resp.error = "Rate limited. Please try again later."
  /\ upload[1].videoId \in DOMAIN videos
  /\ videos[upload[1].videoId].status = "processing"
  /\ video_segments = <<>>

\* The gateway answered invocation r of search-videos with a failure.
SearchGatewayFailed(r) == search[r].gateway \in {429, 402, 503}

QaGatewayFailed(r) == qa[r].gateway \in {429, 402, 503}

\* C15 as stated: the status of the response is the gateway's status, for
\* 429, for 402 and for any other failure.
C15_GatewayStatusReturned ==
  /\ \A r \in SearchReqs : SearchGatewayFailed(r) => search[r].status = search[r].gateway
  /\ \A r \in QaReqs : QaGatewayFailed(r) => qa[r].status = qa[r].gateway

\* C15 amended: 429 and 402 are returned as the status of the response; any
\* other failure is thrown and answered by the catch with 500; in each case
\* the response carries an error and no result or answer, the gateway was
\* called once and video-qa wrote no history row.
C15_GatewayStatusReturnedOr500 ==
  /\ \A r \in SearchReqs :
       SearchGatewayFailed(r) =>
         /\ search[r].pc = "done" /\ search[r].llmCalls = 1
         /\ search[r].status = (IF search[r].gateway \in {429, 402}
                                  THEN search[r].gateway ELSE 500)
         /\ search[r].error # "" /\ search[r].results = <<>>
  /\ \A r \in QaReqs :
       QaGatewayFailed(r) =>
         /\ qa[r].pc = "done" /\ qa[r].llmCalls = 1 /\ qa[r].dbOps = 2
         /\ qa[r].status = (IF qa[r].gateway \in {429, 402} THEN qa[r].gateway ELSE 500)
         /\ qa[r].error # "" /\ qa[r].answer = <<>>
         /\ ~qa[r].historyWritten /\ video_qa_history = <<>>

\* search-videos passed a 429 on and video-qa answered a 503 with 500.
C15_Witness ==
  /\ search[1].pc = "done" /\ search[1].gateway = 429 /\ search[1].status = 429
  /\ qa[1].pc = "done" /\ qa[1].gateway = 503 /\ qa[1].status = 500
  /\ video_qa_history = <<>>

\* The reply to invocation r of video-qa held no JSON object that parses.
QaUnparsed(r) == qa[r].replyKind \in {"noobject", "badjson"}

\* C16: when the reply holds no JSON object that parses, the answer is the
\* reply's text and the list of timestamps is empty, in the response and in
\* the history row (which stays until the video is deleted).
C16_UnparsedReplyIsTheAnswer ==
  \A r \in QaReqs :
    QaUnparsed(r) =>
      /\ qa[r].answer = qa[r].content /\ qa[r].relevant_timestamps = <<>>
      /\ qa[r].pc = "done" => qa[r].status = 200
      /\ qa[r].historyWritten /\ qa[r].videoId \in DOMAIN videos =>
           video_qa_history =
             << [video_id |-> qa[r].videoId, question |-> qa[r].question,
                 answer |-> qa[r].content, relevant_timestamps |-> <<>>] >>

\* A reply with braces that are not JSON was answered and stored as it is.
C16_Witness ==
  /\ qa[1].pc = "done" /\ qa[1].status = 200 /\ qa[1].replyKind = "badjson"
  /\ qa[1].answer = PlainAnswer /\ qa[1].relevant_timestamps = <<>>
  /\ Len(video_qa_history) = 1
  /\ video_qa_history[1].answer = PlainAnswer
  /\ video_qa_history[1].relevant_timestamps = <<>>

\* C17: the step of video-qa that inserts the history row ends the request
\* with status 200 and the answer and timestamps it had before the insert,
\* whether the insert succeeds or fails; a success appends exactly one row,
\* holding the question and that answer, and a failure none.
C17_HistoryFailureNotSurfaced ==
  [][\A r \in QaReqs :
       qa[r].pc = "history" /\ qa'[r].pc = "done" =>
         /\ qa'[r].status = 200 /\ qa'[r].error = ""
         /\ qa'[r].answer = qa[r].answer
         /\ qa'[r].relevant_timestamps = qa[r].relevant_timestamps
         /\ \/ /\ qa'[r].historyWritten
               /\ video_qa_history' =
                    Append(video_qa_history,
                           [video_id |-> qa[r].videoId, question |-> qa[r].question,
                            answer |-> qa[r].answer,
                            relevant_timestamps |-> qa[r].relevant_timestamps])
            \/ /\ ~qa'[r].historyWritten
               /\ video_qa_history' = video_qa_history]_vars

\* The insert failed for a video that exists, and the answer was returned.
C17_Witness ==
  /\ qa[1].pc = "done" /\ qa[1].status = 200 /\ qa[1].dbOps = 3
  /\ ~qa[1].historyWritten /\ video_qa_history = <<>>
  /\ qa[1].answer = JsonAnswer /\ qa[1].relevant_timestamps = <<Stamp>>
  /\ qa[1].videoId \in DOMAIN videos /\ del[1].pc = "idle"

\* C18: the lookup step of video-qa, taken when the video has no row, ends
\* the request with the error "Video not found" (status 500), without any
\* gateway call and without a history row; a request that has answered takes
\* no further step.
C18_MissingVideoIsRefused ==
  [][\A r \in QaReqs :
       /\ ( /\ qa[r].pc = "video" /\ qa'[r].pc # "video"
            /\ qa[r].videoId \notin DOMAIN videos )
          => /\ qa'[r].pc = "done" /\ qa'[r].status = 500
             /\ qa'[r].error = "Video not found"
             /\ qa'[r].llmCalls = 0 /\ ~qa'[r].historyWritten
             /\ qa'[r].answer = <<>>
             /\ video_qa_history' = video_qa_history
       /\ qa[r].pc = "done" => qa'[r] = qa[r]]_vars

\* A question about a video that was never uploaded.
C18_Witness ==
  /\ qa[1].pc = "done" /\ qa[1].error = "Video not found" /\ qa[1].videoId = 1
  /\ upload[1].pc = "idle" /\ videos = <<>>
  /\ qa[1].llmCalls = 0 /\ video_qa_history = <<>>

\* C19: a request whose body lacks a required field is answered with status
\* 500 and the handler's message, with no gateway call and no database
\* operation.
C19_MissingFieldIs500 ==
  /\ \A r \in AnalyzeReqs :
       analyze[r].missing =>
         /\ analyze[r].pc = "done" /\ analyze[r].resp.status = 500
         /\ analyze[r].resp.error = "Missing videoId or videoUrl"
         /\ analyze[r].llmCalls = 0 /\ analyze[r].dbOps = 0
         /\ ~analyze[r].inserted /\ ~analyze[r].updated /\ RowsBy(r) = <<>>
  /\ \A r \in SearchReqs :
       search[r].missing =>
         /\ search[r].pc = "done" /\ search[r].status = 500
         /\ search[r].error = "Missing search query"
         /\ search[r].llmCalls = 0 /\ search[r].dbOps = 0 /\ search[r].results = <<>>
  /\ \A r \in QaReqs :
       qa[r].missing =>
         /\ qa[r].pc = "done" /\ qa[r].status = 500
         /\ qa[r].error = "Missing question or videoId"
         /\ qa[r].llmCalls = 0 /\ qa[r].dbOps = 0 /\ ~qa[r].historyWritten

\* Each handler refused a body without its field, with the key configured.
C19_Witness ==
  /\ apiKey
  /\ analyze[1].missing /\ analyze[1].resp.status = 500
  /\ search[1].missing /\ search[1].status = 500
  /\ qa[1].missing /\ qa[1].status = 500

\* Invocation r of a handler is waiting and can take its next step (shown
\* for the step in which the awaited call fails).
AnalyzeCanStep(r) ==
  ENABLED ( \/ AnalyzeFetch(r, 503, Reply(FALSE, FALSE, FALSE, <<>>))
            \/ AnalyzeInsert(r, FALSE)
            \/ AnalyzeUpdate(r, FALSE) )

SearchCanStep(r) ==
  ENABLED ( \/ SearchSelect(r, FALSE)
            \/ SearchFetch(r, 503, Reply(FALSE, FALSE, FALSE, <<>>)) )

QaCanStep(r) ==
  ENABLED ( \/ QaVideo(r, FALSE)
            \/ QaSegments(r, FALSE)
            \/ QaFetch(r, 503, QaReply(<<>>, FALSE, FALSE, NoStr, NoList))
            \/ QaHistory(r, FALSE) )

\* C20: an invocation that was started either can take its next step or has
\* answered; an answer that is not a success has status 500, 429 or 402, a
\* JSON body with a non-empty error, Content-Type application/json and the
\* CORS headers.
C20_EveryFailureAnswersJsonError ==
  /\ \A r \in AnalyzeReqs :
       /\ analyze[r].pc \notin {"idle", "done"} => AnalyzeCanStep(r)
       /\ analyze[r].pc = "done" /\ ~analyze[r].resp.success =>
            /\ analyze[r].resp.status = 500 /\ analyze[r].resp.error # ""
            /\ analyze[r].resp.headers = JsonHeaders
  /\ \A r \in SearchReqs :
       /\ search[r].pc \notin {"idle", "done"} => SearchCanStep(r)
       /\ search[r].pc = "done" /\ search[r].status # 200 =>
            /\ search[r].status \in {500, 429, 402} /\ search[r].error # ""
            /\ search[r].headers = JsonHeaders
  /\ \A r \in QaReqs :
       /\ qa[r].pc \notin {"idle", "done"} => QaCanStep(r)
       /\ qa[r].pc = "done" /\ qa[r].status # 200 =>
            /\ qa[r].status \in {500, 429, 402} /\ qa[r].error # ""
            /\ qa[r].headers = JsonHeaders

\* A database error in analyze-video, an unreadable body in search-videos and
\* a gateway error in video-qa were each answered.
C20_Witness ==
  /\ analyze[1].pc = "done" /\ analyze[1].resp.error = "insertError"
  /\ analyze[1].resp.headers = JsonHeaders
  /\ search[1].pc = "done" /\ search[1].error = "Unexpected end of JSON input"
  /\ search[1].headers = JsonHeaders
  /\ qa[1].pc = "done" /\ qa[1].gateway = 402 /\ qa[1].error # ""
  /\ qa[1].headers = JsonHeaders

\* Invocation r of analyze-video answers in this step.
AnalyzeAnswers(r) == analyze[r].pc # "done" /\ analyze'[r].pc = "done"

\* C21: a video row appears with status processing; the status of a row only
\* changes from processing to ready, in the step in which an analyze-video
\* invocation for that video answers success; a step in which an invocation
\* answers an error changes no status; no row is ever failed.
C21_StatusOnlyProcessingToReady ==
  [][/\ \A id \in DOMAIN videos' \ DOMAIN videos : videos'[id].status = "processing"
     /\ \A id \in DOMAIN videos' \cap DOMAIN videos :
          /\ videos'[id].status # "failed"
          /\ videos[id].status = "ready" => videos'[id].status = "ready"
          /\ videos'[id].status # videos[id].status =>
               /\ videos[id].status = "processing" /\ videos'[id].status = "ready"
               /\ \E r \in AnalyzeReqs :
                    /\ AnalyzeAnswers(r) /\ analyze'[r].resp.success
                    /\ analyze[r].videoId = id
     /\ \A r \in AnalyzeReqs :
          AnalyzeAnswers(r) /\ ~analyze'[r].resp.success =>
            \A id \in DOMAIN videos' \cap DOMAIN videos :
              videos'[id].status = videos[id].status]_vars

\* A second analysis of a ready video failed at its update: the video is
\* still ready.
C21_Witness ==
  /\ Succeeded(1) /\ UpdateFailed(2)
  /\ analyze[1].videoId = analyze[2].videoId
  /\ analyze[2].sawReady
  /\ analyze[1].videoId \in DOMAIN videos
  /\ videos[analyze[1].videoId].status = "ready"

\* The rows of a table that belong to other videos than id.
RowsOfOthers(rows, id) ==
  LET Other(row) == row.video_id # id IN SelectSeq(rows, Other)

\* C22: the table video_segments changes in two kinds of step only: the
\* insert of an analyze-video invocation, which appends that invocation's
\* records and leaves the rows there as they are, and the row delete of
\* deleteVideo, which removes the video and exactly the rows of that video.
C22_SegmentsOnlyInsertedAndCascaded ==
  [][video_segments' # video_segments =>
       \/ \E r \in AnalyzeReqs :
            /\ analyze[r].pc = "insert" /\ analyze'[r].inserted
            /\ video_segments' = video_segments \o analyze[r].segmentRecords
       \/ \E d \in Deletes :
            /\ del[d].pc = "delete" /\ del'[d].pc = "returned"
            /\ del[d].id \in DOMAIN videos /\ del[d].id \notin DOMAIN videos'
            /\ video_segments' = RowsOfOthers(video_segments, del[d].id)]_vars

\* The segments of an analysis are all there after a search returned some
\* of them and a question was answered and stored.
C22_Witness ==
  /\ Succeeded(1) /\ Len(analyze[1].segmentRecords) > 0
  /\ video_segments = analyze[1].segmentRecords
  /\ search[1].pc = "done" /\ Len(search[1].results) > 0
  /\ qa[1].pc = "done" /\ qa[1].historyWritten
  /\ upload[1].pc = "returned"

\* C23: the select step of search-videos, when the query succeeds and no
\* segment of a ready video is in scope, answers status 200 with no result
\* and the message, and the gateway is not called: the request has answered
\* and takes no further step.
C23_NothingIndexedAnswersEmpty ==
  [][\A r \in SearchReqs :
       /\ ( /\ search[r].pc = "select" /\ search'[r].pc # "select"
            /\ search'[r].error # "fetchError"
            /\ SelectReadySegments(videos, video_segments, search[r].videoId) = <<>> )
          => /\ search'[r].pc = "done" /\ search'[r].status = 200
             /\ search'[r].results = <<>>
             /\ search'[r].message = "No indexed content found"
             /\ search'[r].headers = JsonHeaders
             /\ search'[r].llmCalls = 0
       /\ search[r].pc = "done" => search'[r] = search[r]]_vars

\* The only segments stored belong to a video that is still processing.
C23_Witness ==
  /\ search[1].pc = "done" /\ search[1].status = 200
  /\ search[1].message = "No indexed content found"
  /\ search[1].llmCalls = 0 /\ search[1].dbOps = 1
  /\ analyze[1].pc = "update" /\ Len(video_segments) > 0
  /\ del[1].pc = "idle"

\* C24 as stated: every result belongs to a video that was ready when the
\* segments were selected and, with a videoId, to that video; no result is a
\* row of an invocation that had inserted and not yet updated at that moment.
C24_NoResultOfPendingAnalysis ==
  \A r \in SearchReqs :
    \A i \in 1..Len(search[r].results) :
      /\ search[r].results[i].video_id \in search[r].atFetch.ready
      /\ search[r].videoId # 0 => search[r].results[i].video_id = search[r].videoId
      /\ search[r].results[i].by \notin search[r].atFetch.pending

\* C24 amended: every result belongs to a video that was ready when the
\* segments were selected and, with a videoId, to that video; a result is a
\* row of an invocation that had not yet updated only when another invocation
\* had marked the video ready before.
C24_ResultsOfReadyVideos ==
  \A r \in SearchReqs :
    \A i \in 1..Len(search[r].results) :
      /\ search[r].results[i].video_id \in search[r].atFetch.ready
      /\ search[r].videoId # 0 => search[r].results[i].video_id = search[r].videoId
      /\ search[r].results[i].by \in search[r].atFetch.pending =>
           \E q \in search[r].atFetch.updated \ {search[r].results[i].by} :
             analyze[q].videoId = search[r].results[i].video_id

\* A search scoped to the first of two ready videos returned its segments.
C24_Witness ==
  \E r \in SearchReqs :
    /\ search[r].pc = "done" /\ search[r].videoId = 1
    /\ search[r].atFetch.ready = {1, 2}
    /\ Len(search[r].results) = 2
    /\ \A i \in 1..2 : search[r].results[i].video_id = 1
    /\ \E i \in 1..Len(video_segments) : video_segments[i].video_id = 2

\* C25: uploadVideo throws only at the storage upload or at the row insert,
\* and that step creates no video row and invokes nothing; analyze-video is
\* invoked only after the insert, for the row created; once the invocation
\* has answered, with success or with an error, uploadVideo can return, and
\* it returns the row it created.
C25_UploadReturnsCreatedVideo ==
  [][\A u \in Uploads :
       /\ upload'[u].pc = "threw" /\ upload[u].pc # "threw"
          => /\ upload[u].pc \in {"idle", "stored"}
             /\ videos' = videos /\ analyze' = analyze
             /\ upload'[u].videoId = 0 /\ upload'[u].req = 0
       /\ upload[u].pc = "threw" => upload'[u] = upload[u] /\ upload[u].req = 0
       /\ upload[u].pc = "idle" /\ upload'[u].pc = "threw" => storage' = storage
       /\ upload'[u].pc = "invoked" /\ upload[u].pc # "invoked"
          => /\ upload[u].pc = "inserted"
             /\ analyze'[upload'[u].req].videoId \in {0, upload[u].videoId}
       /\ upload[u].pc = "invoked" /\ analyze[upload[u].req].pc = "done"
          => ENABLED UploadReturn(u)
       /\ upload'[u].pc = "returned" /\ upload[u].pc # "returned"
          => /\ upload[u].pc = "invoked"
             /\ upload'[u].videoId = upload[u].videoId /\ upload[u].videoId # 0]_vars

\* uploadVideo returned the video although analyze-video answered an error.
C25_Witness ==
  /\ upload[1].pc = "returned" /\ upload[1].videoId = 1
  /\ analyze[1].pc = "done" /\ analyze[1].resp.status = 500
  /\ 1 \in DOMAIN videos /\ videos[1].status = "processing"

\* C26 as stated: a search-videos response with status 200 holds at most ten
\* results, each with a relevance_score above 0.3, whether the rankings are
\* those of the reply or those of the keyword scorer.
C26_AtMostTenAboveThreshold ==
  \A r \in SearchReqs :
    Answered(r) /\ search[r].status = 200 =>
      /\ Len(search[r].results) <= FallbackLimit
      /\ \A i \in 1..Len(search[r].results) :
           AboveThreshold(search[r].results[i].relevance_score)

\* The ranking at position i of search r has no index, a negative index, or an
\* index past the last segment fetched.
RefersToNoSegment(r, i) ==
  LET index == search[r].rankings[i].index
  IN  \/ ~index.has
      \/ index.v < 0
      \/ index.v > Len(search[r].segments) - 1

\* C27: when a ranking parsed from the reply refers to no fetched segment,
\* search-videos answers status 500 with an error and no results, whatever
\* the other rankings and the filters are.
C27_AbsentSegmentAnswers500 ==
  \A r \in SearchReqs :
    /\ Answered(r) /\ search[r].gateway = 200 /\ search[r].replyKind = "array"
    /\ \E i \in 1..Len(search[r].rankings) : RefersToNoSegment(r, i)
    => /\ search[r].status = 500 /\ search[r].error = "TypeError"
       /\ search[r].results = <<>>
       /\ search[r].headers = JsonHeaders

\* A reply ranks segment 0 first and then an entry without index: nothing is
\* returned.
C27_Witness ==
  \E r \in SearchReqs :
    /\ Answered(r) /\ search[r].status = 500 /\ search[r].gateway = 200
    /\ Len(search[r].segments) = 2 /\ Len(search[r].rankings) = 2
    /\ search[r].rankings[1].index = Some(0)
    /\ ~search[r].rankings[2].index.has
    /\ search[r].results = <<>>

\* C28 as stated: at the step at which analyze-video answers success the
\* video exists with status ready, and segmentsCreated counts the rows of that
\* invocation stored at that moment.
C28_SuccessMeansReadyAndStored ==
  [][\A r \in AnalyzeReqs :
       analyze[r].pc # "done" /\ analyze'[r].pc = "done" /\ analyze'[r].resp.success
       => /\ analyze'[r].videoId \in DOMAIN videos'
          /\ videos'[analyze'[r].videoId].status = "ready"
          /\ analyze'[r].resp.segmentsCreated = Len(RowsBy(r))']_vars

\* C30 as stated: once deleteVideo has returned or thrown for a video it
\* found, the stored file and the video row are both gone or both present,
\* and no segment or Q&A row of the video outlives the row.
C30_DeleteAllOrNothing ==
  \A d \in Deletes :
    del[d].pc \in {"returned", "threw"} /\ del[d].path # 0 =>
      /\ del[d].path \in storage <=> del[d].id \in DOMAIN videos
      /\ del[d].id \notin DOMAIN videos =>
           /\ \A i \in 1..Len(video_segments) : video_segments[i].video_id # del[d].id
           /\ \A i \in 1..Len(video_qa_history) : video_qa_history[i].video_id # del[d].id

\* C29 as stated: every message of the list belongs to a question asked for
\* the video displayed; at most one question is in flight; in the list every
\* assistant message directly follows its question, and every question is
\* followed by its assistant message or is the last one, still loading.
C29_MessagesOfDisplayedVideo ==
  /\ \A i \in 1..Len(chat.messages) : chat.messages[i].about = chat.videoId
  /\ Cardinality(chat.inFlight) <= 1
  /\ \A i \in 1..Len(chat.messages) :
       /\ chat.messages[i].role = "assistant" =>
            /\ i > 1
            /\ chat.messages[i - 1].role = "user"
            /\ chat.messages[i - 1].about = chat.messages[i].about
       /\ chat.messages[i].role = "user" =>
            IF i < Len(chat.messages)
              THEN chat.messages[i + 1].role = "assistant"
              ELSE chat.isLoading

====
